---- MODULE Spec2Model ----
(***************************************************************************)
(* Model of the agentic-tutor workflow engine: the LangGraph state graph   *)
(* of agent/workflow.py with its nodes (agent/nodes) and routers           *)
(* (agent/routing/edges.py), driven by TutorWorkflowRunner                 *)
(* (agent/runner.py) over a per-thread MemorySaver checkpoint, and the     *)
(* session registry of api_server.py.                                      *)
(*                                                                         *)
(* A Python string is modelled by TLA+ strings for names and by short      *)
(* tuples for composed texts; the empty tuple is the empty string.         *)
(* A language-model or search call is an input: its text is drawn from a   *)
(* small set and it may fail.                                              *)
(***************************************************************************)
EXTENDS Integers, Sequences, FiniteSets, TLC

\* ------------------------------------------------------------------ bounds

\* Longest reply (in lines) of the prerequisites model call.
MaxPrereqs == 2
\* Longest list a client sends as known_prerequisites.
MaxKnown == 2
\* Most question/answer pairs kept in questions_asked before the client
\* stops asking.
MaxQuestions == 1
\* Longest reply (in lines) of the roadmap model call.
MaxRoadmap == 2
\* A client that starts an id again does so while fewer than this many
\* topics are in completed_topics.
MaxCompletedAtStart == 2

\* ------------------------------------------------------------------ values

SessionIds == {"A", "B"}
CallIds == {1, 2}

Topics == {"t", "u"}
PrereqNames == {"a", "b"}
\* The texts a language-model call can return for a lesson or a summary.
Texts == {"x", "y"}

Stages ==
  {"start", "prerequisites", "human_selection", "roadmap", "learning",
   "session_summary", "complete"}

\* Graph nodes of create_graph, with the START and END markers.
Nodes ==
  {"prerequisites_agent", "human_selection", "roadmap_agent",
   "research_agent", "critique_agent", "generation_agent_main",
   "topic_review", "progress_tracker", "session_summary",
   "session_completion"}

END == "__end__"

\* ------------------------------------------------------------------ helpers

Range(s) == {s[i] : i \in 1..Len(s)}

SeqsUpTo(S, n) == UNION {[1..k -> S] : k \in 0..n}

RECURSIVE FilterSeq(_, _)
\* [p for p in s if p in keep]
FilterSeq(s, keep) ==
  IF s = <<>> THEN <<>>
  ELSE IF Head(s) \in keep
       THEN <<Head(s)>> \o FilterSeq(Tail(s), keep)
       ELSE FilterSeq(Tail(s), keep)

\* str.strip() on one line of a model reply; lines are names, possibly blank.
Strip(line) == IF line = " " THEN "" ELSE line

RECURSIVE ParseLines(_)
\* [line.strip() for line in content.split('\n') if line.strip()]
ParseLines(lines) ==
  IF lines = <<>> THEN <<>>
  ELSE IF Strip(Head(lines)) # ""
       THEN <<Strip(Head(lines))>> \o ParseLines(Tail(lines))
       ELSE ParseLines(Tail(lines))

Human(by) == [role |-> "human", by |-> by]
AI(by) == [role |-> "ai", by |-> by]

\* ------------------------------------------------------------------ state

\* AgentState() with every field at its default.
AgentState ==
  [initial_topic |-> "",
   prerequisites |-> <<>>,
   known_prerequisites |-> <<>>,
   unknown_prerequisites |-> <<>>,
   learning_roadmap |-> <<>>,
   completed_topics |-> <<>>,
   current_topic_index |-> 0,
   messages |-> <<>>,
   current_topic |-> "",
   current_research |-> <<>>,
   current_lesson |-> <<>>,
   topic_complete |-> FALSE,
   awaiting_user_input |-> FALSE,
   user_selection |-> <<>>,
   last_qa_question |-> "",
   last_qa_answer |-> "",
   questions_asked |-> <<>>,
   session_completion_data |-> <<>>,
   research_retry_count |-> 0,
   workflow_stage |-> "start"]

\* How the graph applies a node's returned mapping: every field is a
\* last-value channel (no field of AgentState declares a reducer), so a
\* returned field replaces the stored one, messages included.
Merge(state, update) ==
  [f \in DOMAIN state |-> IF f \in DOMAIN update THEN update[f] ELSE state[f]]

\* ------------------------------------------------------------------ resume values

\* A value a caller passes to Command(resume=...).  isdict: it is a mapping;
\* keys: the keys it holds; known_iter: its known_prerequisites entry can be
\* iterated (a list, not None or a number); the other fields are the
\* entries' values (known, action, question and selected are the entries
\* known_prerequisites, action, question and selected_prerequisites).
ResumeValue(isdict, keys, known_iter, known, action, question, selected) ==
  [isdict |-> isdict, keys |-> keys, known_iter |-> known_iter,
   known |-> known, action |-> action, question |-> question,
   selected |-> selected]

NonDict == ResumeValue(FALSE, {}, FALSE, <<>>, "", "", <<>>)
EmptyDict == ResumeValue(TRUE, {}, FALSE, <<>>, "", "", <<>>)
KnownDict(known) ==
  ResumeValue(TRUE, {"known_prerequisites"}, TRUE, known, "", "", <<>>)
KnownNotIterable ==
  ResumeValue(TRUE, {"known_prerequisites"}, FALSE, <<>>, "", "", <<>>)
ActionDict(action) ==
  ResumeValue(TRUE, {"action"}, FALSE, <<>>, action, "", <<>>)
AskDict(question) ==
  ResumeValue(TRUE, {"action", "question"}, FALSE, <<>>, "ask_question",
              question, <<>>)

\* user_response of resume_tutor_session in api_server.py: the action, and
\* the question and the selected prerequisites when the request holds a
\* non-empty one.
build_user_response(action, question, selected) ==
  ResumeValue(TRUE,
              {"action"}
                \cup (IF question # "" THEN {"question"} ELSE {})
                \cup (IF selected # <<>>
                      THEN {"selected_prerequisites"} ELSE {}),
              FALSE, <<>>, action, question, selected)

\* ------------------------------------------------------------------ nodes

\* nodes/prerequisites.py: lines is the model reply, split at newlines.
prerequisites_agent_node(state, lines) ==
  [prerequisites |-> ParseLines(lines),
   messages |-> <<AI("prerequisites_agent")>>,
   workflow_stage |-> "human_selection",
   awaiting_user_input |-> TRUE]

\* The payload human_selection_node passes to interrupt().
human_selection_interrupt(state) ==
  [type |-> "prerequisite_selection",
   prerequisites |-> state.prerequisites,
   topic |-> "", lesson_content |-> <<>>, data |-> <<>>]

\* isinstance(user_response, dict) and "known_prerequisites" in user_response
has_known_prerequisites(user_response) ==
  user_response.isdict /\ "known_prerequisites" \in user_response.keys

\* Iterating user_response["known_prerequisites"] raises TypeError when the
\* entry is not iterable.
human_selection_raises(state, user_response) ==
  /\ has_known_prerequisites(user_response)
  /\ ~user_response.known_iter

human_selection_known(state, user_response) ==
  IF has_known_prerequisites(user_response)
  THEN FilterSeq(user_response.known, Range(state.prerequisites))
  ELSE <<>>

\* human_selection_unknown without the removal of the known names.
human_selection_unknown_keeps_known(state, user_response) ==
  state.prerequisites

\* human_selection_unknown whose default branch selects nothing to learn.
human_selection_unknown_default_empty(state, user_response) ==
  IF has_known_prerequisites(user_response)
  THEN FilterSeq(state.prerequisites,
                 Range(state.prerequisites)
                   \ Range(human_selection_known(state, user_response)))
  ELSE <<>>

human_selection_unknown(state, user_response) ==
  IF has_known_prerequisites(user_response)
  THEN FilterSeq(state.prerequisites,
                 Range(state.prerequisites)
                   \ Range(human_selection_known(state, user_response)))
  ELSE state.prerequisites

\* nodes/selection.py, the code after interrupt() returned user_response.
human_selection_node(state, user_response) ==
  [known_prerequisites |-> human_selection_known(state, user_response),
   unknown_prerequisites |-> human_selection_unknown(state, user_response),
   user_selection |-> human_selection_unknown(state, user_response),
   messages |-> <<AI("human_selection")>>,
   workflow_stage |-> "roadmap",
   awaiting_user_input |-> FALSE]

\* topics_to_learn of roadmap_agent_node.
topics_to_learn(state) == state.unknown_prerequisites \o <<state.initial_topic>>

\* roadmap[0] in the roadmap message raises IndexError on an empty roadmap,
\* before the node returns.
roadmap_agent_raises(state, lines) == ParseLines(lines) = <<>>

\* roadmap_agent_node that starts at the last topic of the roadmap.
roadmap_agent_node_starts_last(state, lines) ==
  [learning_roadmap |-> ParseLines(lines),
   current_topic_index |-> 0,
   current_topic |->
     IF ParseLines(lines) # <<>>
     THEN ParseLines(lines)[Len(ParseLines(lines))] ELSE "",
   messages |-> <<AI("roadmap_agent")>>,
   workflow_stage |-> "learning"]

\* nodes/roadmap.py: lines is the model reply, split at newlines.
roadmap_agent_node(state, lines) ==
  [learning_roadmap |-> ParseLines(lines),
   current_topic_index |-> 0,
   current_topic |->
     IF ParseLines(lines) # <<>> THEN ParseLines(lines)[1] ELSE "",
   messages |-> <<AI("roadmap_agent")>>,
   workflow_stage |-> "learning"]

\* research_agent_node searches only when there is a current topic.
research_agent_calls(state) == state.current_topic # ""

research_agent_node(state) ==
  IF state.current_topic = ""
  THEN [current_research |-> <<"No topic to research">>]
  ELSE [current_research |-> <<"research", state.current_topic>>,
        research_retry_count |-> 0,
        messages |-> <<AI("research_agent")>>]

\* critique_agent_node that also puts the index back to the first topic.
critique_agent_node_resets_index(state) ==
  [current_research |-> state.current_research \o <<"review">>,
   current_topic_index |-> 0,
   messages |-> <<AI("critique_agent")>>]

critique_agent_node(state) ==
  [current_research |-> state.current_research \o <<"review">>,
   messages |-> <<AI("critique_agent")>>]

\* generation_agent_node_main that sets the stage back to roadmap.
generation_agent_node_main_sets_stage(state, text) ==
  [current_lesson |-> <<"lesson", state.current_topic, text>>,
   messages |-> <<AI("generation_agent_main")>>,
   awaiting_user_input |-> TRUE,
   topic_complete |-> FALSE,
   workflow_stage |-> "roadmap"]

\* text is the model reply; the lesson text wraps it and is never empty.
generation_agent_node_main(state, text) ==
  [current_lesson |-> <<"lesson", state.current_topic, text>>,
   messages |-> <<AI("generation_agent_main")>>,
   awaiting_user_input |-> TRUE,
   topic_complete |-> FALSE]

\* topic_review_interrupt that names the topic the session was started on.
topic_review_interrupt_initial_topic(state) ==
  [type |-> "topic_review",
   prerequisites |-> <<>>,
   topic |-> state.initial_topic,
   lesson_content |-> state.current_lesson,
   data |-> <<>>]

topic_review_interrupt(state) ==
  [type |-> "topic_review",
   prerequisites |-> <<>>,
   topic |-> state.current_topic,
   lesson_content |-> state.current_lesson,
   data |-> <<>>]

\* feedback_type and user_question of topic_review_node.
feedback_type(user_feedback) ==
  IF "action" \in user_feedback.keys THEN user_feedback.action ELSE "continue"

user_question(user_feedback) ==
  IF "question" \in user_feedback.keys THEN user_feedback.question ELSE ""

\* The branch topic_review_node takes: only "ask" calls the model.
topic_review_branch(user_feedback) ==
  IF ~user_feedback.isdict THEN "fallback"
  ELSE IF feedback_type(user_feedback) = "ask_question"
          /\ user_question(user_feedback) # ""
       THEN "ask"
       ELSE IF feedback_type(user_feedback) = "regenerate"
            THEN "regenerate"
            ELSE "continue"

\* topic_review_node that stays in review on a value it does not know.
topic_review_node_stays(state, user_feedback, answer) ==
  CASE topic_review_branch(user_feedback) = "ask" ->
         [messages |-> <<AI("topic_review")>>,
          awaiting_user_input |-> TRUE,
          topic_complete |-> FALSE,
          last_qa_question |-> user_question(user_feedback),
          last_qa_answer |-> answer,
          questions_asked |->
            state.questions_asked
              \o <<[question |-> user_question(user_feedback),
                    answer |-> answer]>>]
    [] topic_review_branch(user_feedback) = "regenerate" ->
         [messages |-> <<AI("topic_review")>>,
          awaiting_user_input |-> FALSE,
          topic_complete |-> FALSE,
          current_lesson |-> <<>>]
    [] topic_review_branch(user_feedback) = "continue"
         /\ "action" \in user_feedback.keys
         /\ user_feedback.action = "continue" ->
         [messages |-> <<AI("topic_review")>>,
          awaiting_user_input |-> FALSE,
          topic_complete |-> TRUE,
          last_qa_question |-> "",
          last_qa_answer |-> "",
          questions_asked |-> state.questions_asked]
    [] OTHER ->
         [messages |-> <<AI("topic_review")>>,
          awaiting_user_input |-> TRUE,
          topic_complete |-> FALSE]

\* topic_review_node whose question branch does not log the pair.
topic_review_node_unlogged(state, user_feedback, answer) ==
  CASE topic_review_branch(user_feedback) = "ask" ->
         [messages |-> <<AI("topic_review")>>,
          awaiting_user_input |-> TRUE,
          topic_complete |-> FALSE,
          last_qa_question |-> user_question(user_feedback),
          last_qa_answer |-> answer]
    [] topic_review_branch(user_feedback) = "regenerate" ->
         [messages |-> <<AI("topic_review")>>,
          awaiting_user_input |-> FALSE,
          topic_complete |-> FALSE,
          current_lesson |-> <<>>]
    [] OTHER ->
         [messages |-> <<AI("topic_review")>>,
          awaiting_user_input |-> FALSE,
          topic_complete |-> TRUE,
          last_qa_question |-> "",
          last_qa_answer |-> "",
          questions_asked |-> state.questions_asked]

\* topic_review_node whose continue branch empties questions_asked.
topic_review_node_clears_log(state, user_feedback, answer) ==
  CASE topic_review_branch(user_feedback) = "ask" ->
         [messages |-> <<AI("topic_review")>>,
          awaiting_user_input |-> TRUE,
          topic_complete |-> FALSE,
          last_qa_question |-> user_question(user_feedback),
          last_qa_answer |-> answer,
          questions_asked |->
            state.questions_asked
              \o <<[question |-> user_question(user_feedback),
                    answer |-> answer]>>]
    [] topic_review_branch(user_feedback) = "regenerate" ->
         [messages |-> <<AI("topic_review")>>,
          awaiting_user_input |-> FALSE,
          topic_complete |-> FALSE,
          current_lesson |-> <<>>]
    [] OTHER ->
         [messages |-> <<AI("topic_review")>>,
          awaiting_user_input |-> FALSE,
          topic_complete |-> TRUE,
          last_qa_question |-> "",
          last_qa_answer |-> "",
          questions_asked |-> <<>>]

\* nodes/learning.py, the code after interrupt() returned user_feedback;
\* answer is the model reply of the "ask" branch.
topic_review_node(state, user_feedback, answer) ==
  CASE topic_review_branch(user_feedback) = "ask" ->
         [messages |-> <<AI("topic_review")>>,
          awaiting_user_input |-> TRUE,
          topic_complete |-> FALSE,
          last_qa_question |-> user_question(user_feedback),
          last_qa_answer |-> answer,
          questions_asked |->
            state.questions_asked
              \o <<[question |-> user_question(user_feedback),
                    answer |-> answer]>>]
    [] topic_review_branch(user_feedback) = "regenerate" ->
         [messages |-> <<AI("topic_review")>>,
          awaiting_user_input |-> FALSE,
          topic_complete |-> FALSE,
          current_lesson |-> <<>>]
    [] OTHER ->
         [messages |-> <<AI("topic_review")>>,
          awaiting_user_input |-> FALSE,
          topic_complete |-> TRUE,
          last_qa_question |-> "",
          last_qa_answer |-> "",
          questions_asked |-> state.questions_asked]

\* progress_tracker_node that starts completed_topics afresh.
progress_tracker_node_forgets_completed(state) ==
  IF state.current_topic_index + 1 >= Len(state.learning_roadmap)
  THEN [completed_topics |-> <<state.current_topic>>,
        current_topic_index |-> state.current_topic_index + 1,
        workflow_stage |-> "session_summary",
        messages |-> <<AI("progress_tracker")>>,
        topic_complete |-> FALSE]
  ELSE [completed_topics |-> <<state.current_topic>>,
        current_topic_index |-> state.current_topic_index + 1,
        current_topic |-> state.learning_roadmap[state.current_topic_index + 2],
        topic_complete |-> FALSE,
        messages |-> <<AI("progress_tracker")>>]

\* progress_tracker_node whose last-topic branch leaves the index.
progress_tracker_node_keeps_index(state) ==
  IF state.current_topic_index + 1 >= Len(state.learning_roadmap)
  THEN [completed_topics |-> state.completed_topics \o <<state.current_topic>>,
        current_topic_index |-> state.current_topic_index,
        workflow_stage |-> "session_summary",
        messages |-> <<AI("progress_tracker")>>,
        topic_complete |-> FALSE]
  ELSE [completed_topics |-> state.completed_topics \o <<state.current_topic>>,
        current_topic_index |-> state.current_topic_index + 1,
        current_topic |-> state.learning_roadmap[state.current_topic_index + 2],
        topic_complete |-> FALSE,
        messages |-> <<AI("progress_tracker")>>]

progress_tracker_node(state) ==
  IF state.current_topic_index + 1 >= Len(state.learning_roadmap)
  THEN [completed_topics |-> state.completed_topics \o <<state.current_topic>>,
        current_topic_index |-> state.current_topic_index + 1,
        workflow_stage |-> "session_summary",
        messages |-> <<AI("progress_tracker")>>,
        topic_complete |-> FALSE]
  ELSE [completed_topics |-> state.completed_topics \o <<state.current_topic>>,
        current_topic_index |-> state.current_topic_index + 1,
        current_topic |-> state.learning_roadmap[state.current_topic_index + 2],
        topic_complete |-> FALSE,
        messages |-> <<AI("progress_tracker")>>]

\* session_completion_data of session_summary_node; text is the model reply.
session_completion_data(state, text) ==
  <<[session_complete |-> TRUE,
     summary_generated |-> TRUE,
     initial_topic |-> state.initial_topic,
     total_topics_learned |-> Len(state.completed_topics),
     total_topics_planned |-> Len(state.learning_roadmap),
     learning_roadmap |-> state.learning_roadmap,
     completed_topics |-> state.completed_topics,
     prerequisites_known |-> state.known_prerequisites,
     prerequisites_learned |-> state.unknown_prerequisites,
     questions_asked_count |-> Len(state.questions_asked),
     session_summary |-> text]>>

session_summary_interrupt(state, text) ==
  [type |-> "session_summary_display",
   prerequisites |-> <<>>,
   topic |-> "",
   lesson_content |-> <<"summary", text>>,
   data |-> session_completion_data(state, text)]

\* nodes/completion.py, the code after interrupt() returned.
session_summary_node(state, text) ==
  [messages |-> <<AI("session_summary")>>,
   workflow_stage |-> "complete",
   session_completion_data |-> session_completion_data(state, text),
   current_lesson |-> <<"summary", text>>,
   topic_complete |-> TRUE,
   awaiting_user_input |-> TRUE]

session_completion_interrupt(state) ==
  [type |-> "session_completion_acknowledgment",
   prerequisites |-> <<>>,
   topic |-> "",
   lesson_content |-> <<>>,
   data |-> state.session_completion_data]

\* session_completion_node that leaves awaiting_user_input as it found it.
session_completion_node_keeps_awaiting(state) ==
  [messages |-> <<AI("session_completion")>>,
   workflow_stage |-> "complete",
   topic_complete |-> TRUE]

session_completion_node(state) ==
  [messages |-> <<AI("session_completion")>>,
   workflow_stage |-> "complete",
   awaiting_user_input |-> FALSE,
   topic_complete |-> TRUE]

\* ------------------------------------------------------------------ routing

route_from_start(state) == "prerequisites"

route_after_prerequisites(state) == "human_selection"

route_after_human_selection(state) == "roadmap"

route_learning_stage(state) ==
  IF state.workflow_stage = "complete" THEN "complete" ELSE "research"

route_after_generation(state) == "topic_review"

\* route_after_topic_review that tests topic_complete first.
route_after_topic_review_done_first(state) ==
  IF state.topic_complete THEN "progress_tracker"
  ELSE IF state.current_lesson = <<>> THEN "research_agent"
       ELSE "topic_review"

\* route_after_topic_review without the branch for a cleared lesson.
route_after_topic_review_no_regenerate(state) ==
  IF state.topic_complete THEN "progress_tracker" ELSE "topic_review"

route_after_topic_review(state) ==
  IF state.current_lesson = <<>> THEN "research_agent"
  ELSE IF state.topic_complete THEN "progress_tracker"
       ELSE "topic_review"

\* route_from_progress_tracker that never leaves the learning loop.
route_from_progress_tracker_loops(state) == "research"

route_from_progress_tracker(state) ==
  IF state.workflow_stage = "session_summary" THEN "session_summary"
  ELSE IF state.current_topic_index >= Len(state.learning_roadmap)
       THEN "session_summary"
       ELSE "research"

\* The value the router of a node returns on the state the node left
\* (a plain edge names its target).
Route(node, state) ==
  CASE node = "prerequisites_agent" -> route_after_prerequisites(state)
    [] node = "human_selection" -> route_after_human_selection(state)
    [] node = "roadmap_agent" -> route_learning_stage(state)
    [] node = "research_agent" -> "critique_agent"
    [] node = "critique_agent" -> "generation_agent_main"
    [] node = "generation_agent_main" -> route_after_generation(state)
    [] node = "topic_review" -> route_after_topic_review(state)
    [] node = "progress_tracker" -> route_from_progress_tracker(state)
    [] node = "session_summary" -> "session_completion"
    [] node = "session_completion" -> END

\* The path maps of add_conditional_edges and the targets of add_edge.
EdgeMap(node) ==
  CASE node = "prerequisites_agent" -> [human_selection |-> "human_selection"]
    [] node = "human_selection" -> [roadmap |-> "roadmap_agent"]
    [] node = "roadmap_agent" -> [research |-> "research_agent"]
    [] node = "research_agent" -> [critique_agent |-> "critique_agent"]
    [] node = "critique_agent" ->
         [generation_agent_main |-> "generation_agent_main"]
    [] node = "generation_agent_main" -> [topic_review |-> "topic_review"]
    [] node = "topic_review" ->
         [progress_tracker |-> "progress_tracker",
          research_agent |-> "research_agent",
          topic_review |-> "topic_review"]
    [] node = "progress_tracker" ->
         [research |-> "research_agent",
          session_summary |-> "session_summary"]
    [] node = "session_summary" -> [session_completion |-> "session_completion"]
    [] node = "session_completion" -> [__end__ |-> END]

\* The node that runs after node on the state it left.
Successor(node, state) == EdgeMap(node)[Route(node, state)]

\* ------------------------------------------------------------------ engine

VARIABLES
  runners,  \* workflow_runners of api_server.py: the session ids that have a runner
  ckpt,     \* per session id, the latest checkpoint of its thread in the MemorySaver
  call      \* per call slot, the start/resume call that runs or ran last in it

vars == <<runners, ckpt, call>>

\* A thread without a checkpoint.  values: the channel values; next: the
\* node that runs next; interrupt: the pending interrupt of that node, an
\* empty tuple when there is none.
NoCheckpoint ==
  [saved |-> FALSE, values |-> AgentState, next |-> "", interrupt |-> <<>>]

\* status: idle, running, returned (success) or failed.  values and pc are
\* the call's own channel values and position; resume holds the value of
\* Command(resume=...) until the first step of the call has used it; trail
\* lists the nodes the call completed; before is the interrupt that was
\* pending when the call began; interrupt is the "interrupt" entry of the
\* returned dictionary; failed_at is the node that raised and cause tells
\* whether a collaborator call failed or the node's own code raised; took
\* is the branch in which the suspended node used the resume value;
\* workflow_completed is the entry of that name in the dictionary a resume
\* call returned.
IdleCall ==
  [status |-> "idle", sid |-> "", kind |-> "", pc |-> "",
   values |-> AgentState, resume |-> <<>>, trail |-> <<>>,
   before |-> <<>>, interrupt |-> <<>>, failed_at |-> "", cause |-> "",
   took |-> "", workflow_completed |-> FALSE]

Init ==
  /\ runners = [s \in SessionIds |-> FALSE]
  /\ ckpt = [s \in SessionIds |-> NoCheckpoint]
  /\ call = [c \in CallIds |-> IdleCall]

\* initial_state of start_learning_session.
initial_state(topic) ==
  [initial_topic |-> topic,
   messages |-> <<Human("start")>>,
   workflow_stage |-> "start"]

\* The values graph.ainvoke(initial_state, config) starts from: the input is
\* written over the channel values of the thread's latest checkpoint, or
\* over the defaults when the thread has none.
InputValues(checkpoint, topic) ==
  Merge(IF checkpoint.saved THEN checkpoint.values ELSE AgentState,
        initial_state(topic))

\* get_or_create_runner, then runner.start_learning_session up to the first
\* step: the input checkpoint is saved and prerequisites_agent is next.
StartCall(c, s, topic) ==
  /\ call[c].status # "running"
  /\ runners' = [runners EXCEPT ![s] = TRUE]
  /\ ckpt' = [ckpt EXCEPT ![s] =
       [saved |-> TRUE,
        values |-> InputValues(ckpt[s], topic),
        next |-> "prerequisites_agent",
        interrupt |-> <<>>]]
  /\ call' = [call EXCEPT ![c] =
       [IdleCall EXCEPT
          !.status = "running", !.sid = s, !.kind = "start",
          !.pc = "prerequisites_agent",
          !.values = InputValues(ckpt[s], topic),
          !.before = ckpt[s].interrupt]]

\* The branch in which node uses the resume value, "" when it reads none.
Branch(node, user_response) ==
  CASE node = "human_selection" ->
         IF has_known_prerequisites(user_response) THEN "list" ELSE "default"
    [] node = "topic_review" -> topic_review_branch(user_response)
    [] OTHER -> ""

\* runner.resume_with_response up to the first step: the call continues the
\* thread at the node its latest checkpoint names.
ResumeCall(c, s, user_response) ==
  /\ call[c].status # "running"
  /\ runners[s]
  /\ ckpt[s].saved
  /\ ckpt[s].next \in Nodes
  /\ call' = [call EXCEPT ![c] =
       [IdleCall EXCEPT
          !.status = "running", !.sid = s, !.kind = "resume",
          !.pc = ckpt[s].next,
          !.values = ckpt[s].values,
          !.resume = <<user_response>>,
          !.before = ckpt[s].interrupt,
          !.took = Branch(ckpt[s].next, user_response)]]
  /\ UNCHANGED <<runners, ckpt>>

Running(c, node) == call[c].status = "running" /\ call[c].pc = node

\* "not current_state or not current_state.values" of resume_with_response,
\* on the snapshot graph.get_state returns after ainvoke: the saver keeps
\* the values of a thread whose run reached the terminal node, so the test
\* succeeds only for a thread without a checkpoint.
workflow_completed(checkpoint) == ~checkpoint.saved

\* Complete whose checkpoint is saved to every thread of the saver.
Complete_shared(c, node, update) ==
  LET values == Merge(call[c].values, update)
      nxt == Successor(node, values)
      saved == [saved |-> TRUE, values |-> values, next |-> nxt,
                interrupt |-> <<>>]
  IN /\ ckpt' = [s \in SessionIds |-> saved]
     /\ call' = [call EXCEPT ![c] =
          [@ EXCEPT !.values = values, !.pc = nxt, !.resume = <<>>,
                    !.trail = Append(@, node),
                    !.status = IF nxt = END THEN "returned" ELSE "running",
                    !.workflow_completed =
                      /\ nxt = END
                      /\ call[c].kind = "resume"
                      /\ workflow_completed(saved)]]
     /\ UNCHANGED runners

\* A node returned update: it is merged, the router picks the next node and
\* the checkpoint is saved; the call returns when the next node is END.
Complete(c, node, update) ==
  LET values == Merge(call[c].values, update)
      nxt == Successor(node, values)
      saved == [saved |-> TRUE, values |-> values, next |-> nxt,
                interrupt |-> <<>>]
  IN /\ ckpt' = [ckpt EXCEPT ![call[c].sid] = saved]
     /\ call' = [call EXCEPT ![c] =
          [@ EXCEPT !.values = values, !.pc = nxt, !.resume = <<>>,
                    !.trail = Append(@, node),
                    !.status = IF nxt = END THEN "returned" ELSE "running",
                    !.workflow_completed =
                      /\ nxt = END
                      /\ call[c].kind = "resume"
                      /\ workflow_completed(saved)]]
     /\ UNCHANGED runners

\* Suspend that leaves no interrupt with the checkpoint for a topic review.
Suspend_unrecorded(c, payload) ==
  LET kept == IF payload.type = "topic_review" THEN <<>> ELSE <<payload>>
  IN /\ ckpt' = [ckpt EXCEPT ![call[c].sid].interrupt = kept]
     /\ call' = [call EXCEPT ![c].status = "returned",
                             ![c].interrupt = kept]
     /\ UNCHANGED runners

\* A node called interrupt(payload) with no resume value at hand: the
\* interrupt is recorded with the checkpoint, whose values and next node
\* stay, and the call returns it.
Suspend(c, payload) ==
  /\ ckpt' = [ckpt EXCEPT ![call[c].sid].interrupt = <<payload>>]
  /\ call' = [call EXCEPT ![c].status = "returned",
                          ![c].interrupt = <<payload>>,
                          ![c].workflow_completed =
                            /\ call[c].kind = "resume"
                            /\ workflow_completed(ckpt[call[c].sid])]
  /\ UNCHANGED runners

\* FailWrite that drops the pending interrupt of the checkpoint.
FailWrite_drops_interrupt(checkpoint, node) ==
  [checkpoint EXCEPT !.interrupt = <<>>]

\* FailWrite that commits the first assignment of the node that raised.
FailWrite_partial(checkpoint, node) ==
  [checkpoint EXCEPT !.values.messages = <<AI(node)>>]

\* What a step that raised leaves in the checkpoint: nothing of its own.
FailWrite(checkpoint, node) == checkpoint

\* A node raised: the exception leaves ainvoke and the call returns
\* success False.
Fail(c, node, cause) ==
  /\ ckpt' = [ckpt EXCEPT ![call[c].sid] = FailWrite(@, node)]
  /\ call' = [call EXCEPT ![c].status = "failed", ![c].failed_at = node,
                          ![c].cause = cause, ![c].resume = <<>>]
  /\ UNCHANGED runners

\* ------------------------------------------------------------------ steps

\* Whether the node, run on state with the resume value at hand (an empty
\* tuple: none), calls the language model or the search client.
CallsCollaborator(node, state, resume) ==
  \/ node \in {"prerequisites_agent", "roadmap_agent", "critique_agent",
               "generation_agent_main", "session_summary"}
  \/ node = "research_agent" /\ research_agent_calls(state)
  \/ /\ node = "topic_review"
     /\ resume # <<>>
     /\ topic_review_branch(resume[1]) = "ask"

\* The model or search call of the running node failed.
FailCollaborator(c) ==
  /\ call[c].status = "running"
  /\ CallsCollaborator(call[c].pc, call[c].values, call[c].resume)
  /\ Fail(c, call[c].pc, "collaborator")

StepPrerequisites(c, lines) ==
  /\ Running(c, "prerequisites_agent")
  /\ Complete(c, "prerequisites_agent",
              prerequisites_agent_node(call[c].values, lines))

SuspendHumanSelection(c) ==
  /\ Running(c, "human_selection")
  /\ call[c].resume = <<>>
  /\ Suspend(c, human_selection_interrupt(call[c].values))

StepHumanSelection(c) ==
  /\ Running(c, "human_selection")
  /\ call[c].resume # <<>>
  /\ ~human_selection_raises(call[c].values, call[c].resume[1])
  /\ Complete(c, "human_selection",
              human_selection_node(call[c].values, call[c].resume[1]))

RaiseHumanSelection(c) ==
  /\ Running(c, "human_selection")
  /\ call[c].resume # <<>>
  /\ human_selection_raises(call[c].values, call[c].resume[1])
  /\ Fail(c, "human_selection", "raised")

StepRoadmap(c, lines) ==
  /\ Running(c, "roadmap_agent")
  /\ ~roadmap_agent_raises(call[c].values, lines)
  /\ Complete(c, "roadmap_agent", roadmap_agent_node(call[c].values, lines))

RaiseRoadmap(c, lines) ==
  /\ Running(c, "roadmap_agent")
  /\ roadmap_agent_raises(call[c].values, lines)
  /\ Fail(c, "roadmap_agent", "raised")

StepResearch(c) ==
  /\ Running(c, "research_agent")
  /\ Complete(c, "research_agent", research_agent_node(call[c].values))

StepCritique(c) ==
  /\ Running(c, "critique_agent")
  /\ Complete(c, "critique_agent", critique_agent_node(call[c].values))

StepGeneration(c, text) ==
  /\ Running(c, "generation_agent_main")
  /\ Complete(c, "generation_agent_main",
              generation_agent_node_main(call[c].values, text))

SuspendTopicReview(c) ==
  /\ Running(c, "topic_review")
  /\ call[c].resume = <<>>
  /\ Suspend(c, topic_review_interrupt(call[c].values))

StepTopicReview(c, answer) ==
  /\ Running(c, "topic_review")
  /\ call[c].resume # <<>>
  /\ Complete(c, "topic_review",
              topic_review_node(call[c].values, call[c].resume[1], answer))

StepProgress(c) ==
  /\ Running(c, "progress_tracker")
  /\ Complete(c, "progress_tracker", progress_tracker_node(call[c].values))

\* session_summary_node calls the model before it calls interrupt().
SuspendSessionSummary(c, text) ==
  /\ Running(c, "session_summary")
  /\ call[c].resume = <<>>
  /\ Suspend(c, session_summary_interrupt(call[c].values, text))

\* On resume the node runs again from its first line: the model is called
\* again, interrupt() returns and the node returns its update.
StepSessionSummary(c, text) ==
  /\ Running(c, "session_summary")
  /\ call[c].resume # <<>>
  /\ Complete(c, "session_summary", session_summary_node(call[c].values, text))

SuspendSessionCompletion(c) ==
  /\ Running(c, "session_completion")
  /\ call[c].resume = <<>>
  /\ Suspend(c, session_completion_interrupt(call[c].values))

StepSessionCompletion(c) ==
  /\ Running(c, "session_completion")
  /\ call[c].resume # <<>>
  /\ Complete(c, "session_completion", session_completion_node(call[c].values))

\* DeleteSession that leaves the checkpoints of the thread in place.
DeleteSession_keeps_checkpoint(s) ==
  /\ runners[s]
  /\ runners' = [runners EXCEPT ![s] = FALSE]
  /\ call' = [c \in CallIds |->
       IF call[c].sid = s /\ call[c].status # "running"
       THEN [IdleCall EXCEPT !.sid = s, !.kind = "delete"]
       ELSE call[c]]
  /\ UNCHANGED ckpt

\* delete_session of api_server.py: the runner and its checkpoints go.  The
\* records of the calls that ended on the deleted runner are dropped with
\* it: they describe a session that no longer exists.  What stays in their
\* slots is the record of the delete call.
DeleteSession(s) ==
  /\ runners[s]
  /\ runners' = [runners EXCEPT ![s] = FALSE]
  /\ ckpt' = [ckpt EXCEPT ![s] = NoCheckpoint]
  /\ call' = [c \in CallIds |->
       IF call[c].sid = s /\ call[c].status # "running"
       THEN [IdleCall EXCEPT !.sid = s, !.kind = "delete"]
       ELSE call[c]]

\* The status the resume, state and delete endpoints of api_server.py answer
\* a request for session id s with: each tests "session_id not in
\* workflow_runners" and nothing else before it answers 404.
resume_tutor_session_status(s) == IF ~runners[s] THEN "not_found" ELSE "found"
get_session_state_status(s) == IF ~runners[s] THEN "not_found" ELSE "found"
delete_session_status(s) == IF runners[s] THEN "deleted" ELSE "not_found"

\* resume_tutor_session of api_server.py: a request for an id without a
\* runner is answered 404; otherwise the value built from the request goes
\* to runner.resume_with_response.
ResumeSession(c, s, action, question, selected) ==
  /\ resume_tutor_session_status(s) = "found"
  /\ ResumeCall(c, s, build_user_response(action, question, selected))

\* stream_tutor_session of api_server.py, the start endpoint: it registers a
\* runner for the id (get_or_create_runner) and then calls
\* runner.stream_with_llm_tokens, a method TutorWorkflowRunner does not
\* have; the AttributeError becomes an error event and no state was saved.
StreamSession(s) ==
  /\ runners' = [runners EXCEPT ![s] = TRUE]
  /\ UNCHANGED <<ckpt, call>>

\* What TutorWorkflowRunner.get_session_state returns for a thread: the
\* values of its latest checkpoint (none without a checkpoint) and the
\* first interrupt of its tasks (_extract_interrupt_info).
get_session_state(checkpoint) ==
  [state |-> IF checkpoint.saved THEN checkpoint.values ELSE AgentState,
   interrupt |-> checkpoint.interrupt]

\* InspectSession that takes the pending interrupt off the checkpoint.
InspectSession_consumes(c, s) ==
  /\ runners[s]
  /\ call[c].status # "running"
  /\ call' = [call EXCEPT ![c] =
       [IdleCall EXCEPT
          !.status = "returned", !.sid = s, !.kind = "inspect",
          !.values = get_session_state(ckpt[s]).state,
          !.interrupt = get_session_state(ckpt[s]).interrupt]]
  /\ ckpt' = [ckpt EXCEPT ![s].interrupt = <<>>]
  /\ UNCHANGED runners

\* get_session_state of api_server.py for a registered id: the answer is
\* kept in call slot c, the stored state is only read.
InspectSession(c, s) ==
  /\ runners[s]
  /\ call[c].status # "running"
  /\ call' = [call EXCEPT ![c] =
       [IdleCall EXCEPT
          !.status = "returned", !.sid = s, !.kind = "inspect",
          !.values = get_session_state(ckpt[s]).state,
          !.interrupt = get_session_state(ckpt[s]).interrupt]]
  /\ UNCHANGED <<runners, ckpt>>

\* ------------------------------------------------------------------ inputs

\* The replies of a model call that is asked for a list: up to n lines, each
\* a name or blank.
ReplyLines(names, n) == SeqsUpTo(names \cup {" "}, n)

PrereqReplies == ReplyLines(PrereqNames, MaxPrereqs)

\* The roadmap model call is asked to reorder topics_to_learn; it returns
\* any lines over these names.
RoadmapReplies(state) == ReplyLines(Range(topics_to_learn(state)), MaxRoadmap)

Answers == {"ans"}

\* The names a client lists as known: a prerequisite name and a name that
\* is no prerequisite.
KnownNames == {"a", "z"}

\* What a client answers a prerequisite selection with: the documented
\* shape and malformed values, a topic review answer among them.
SelectionValues ==
  {NonDict, EmptyDict, KnownNotIterable, ActionDict("continue")}
    \cup {KnownDict(k) : k \in SeqsUpTo(KnownNames, MaxKnown)}

\* What a client answers a topic review with: the documented shape and
\* malformed values, a prerequisite selection answer among them.
ReviewValues ==
  {NonDict, EmptyDict, KnownDict(<<>>)}
    \cup {ActionDict(a) : a \in {"continue", "regenerate", "ask_question", "bogus"}}
    \cup {AskDict(q) : q \in {"q", ""}}

ResumeValues == SelectionValues \cup ReviewValues

\* The values a client resumes session s with.  It stops asking questions
\* once MaxQuestions pairs are stored, and passes an empty mapping where no
\* node reads the value (the summary nodes, and a retry of a call that
\* failed outside a suspending node).
MayResume(s, user_response) ==
  CASE ckpt[s].next = "human_selection" -> user_response \in SelectionValues
    [] ckpt[s].next = "topic_review" ->
         /\ user_response \in ReviewValues
         /\ \/ topic_review_branch(user_response) # "ask"
            \/ Len(ckpt[s].values.questions_asked) < MaxQuestions
    [] OTHER -> user_response = EmptyDict

NoCallRunning(s) ==
  \A c \in CallIds : ~(call[c].status = "running" /\ call[c].sid = s)

\* The steps of the engine loop of call c, the prerequisites model call
\* replying from replies and the lesson and summary calls from texts.
EngineStep(c, replies, texts) ==
  \/ \E lines \in replies : StepPrerequisites(c, lines)
  \/ SuspendHumanSelection(c)
  \/ StepHumanSelection(c)
  \/ RaiseHumanSelection(c)
  \/ \E lines \in RoadmapReplies(call[c].values) : StepRoadmap(c, lines)
  \/ \E lines \in RoadmapReplies(call[c].values) : RaiseRoadmap(c, lines)
  \/ StepResearch(c)
  \/ StepCritique(c)
  \/ \E text \in texts : StepGeneration(c, text)
  \/ SuspendTopicReview(c)
  \/ \E answer \in Answers : StepTopicReview(c, answer)
  \/ StepProgress(c)
  \/ \E text \in texts : SuspendSessionSummary(c, text)
  \/ \E text \in texts : StepSessionSummary(c, text)
  \/ SuspendSessionCompletion(c)
  \/ StepSessionCompletion(c)
  \/ FailCollaborator(c)

\* One session whose client issues one call at a time and starts an id
\* only while it has no runner (app.py draws a new id for every start).
Next ==
  \/ \E topic \in {"t"} :
       /\ ~runners["A"]
       /\ NoCallRunning("A")
       /\ StartCall(1, "A", topic)
  \/ \E v \in ResumeValues :
       /\ NoCallRunning("A")
       /\ MayResume("A", v)
       /\ ResumeCall(1, "A", v)
  \/ EngineStep(1, PrereqReplies, Texts)
  \/ NoCallRunning("A") /\ DeleteSession("A")

Spec == Init /\ [][Next]_vars

\* The values the client of NextRestart resumes with.
RestartValues ==
  {EmptyDict, KnownNotIterable, KnownDict(<<"a">>), ActionDict("continue")}

\* One session whose client issues one call at a time and may start the id
\* again while it has a runner, as runner.start_learning_session and the
\* stream endpoint allow (get_or_create_runner returns the existing runner).
NextRestart ==
  \/ \E topic \in Topics :
       /\ NoCallRunning("A")
       /\ Len(ckpt["A"].values.completed_topics) < MaxCompletedAtStart
       /\ StartCall(1, "A", topic)
  \/ \E v \in RestartValues :
       /\ NoCallRunning("A")
       /\ MayResume("A", v)
       /\ ResumeCall(1, "A", v)
  \/ EngineStep(1, {<<"a">>}, {"x"})

SpecRestart == Init /\ [][NextRestart]_vars

\* The values the clients of NextConc resume with.
ConcValues == {EmptyDict, KnownNotIterable, ActionDict("continue")}

\* One session whose clients issue calls without waiting for one another:
\* resume_tutor_session and start_learning_session take no lock, and every
\* await inside a node lets the other call run.  Each call keeps its own
\* channel values and saves its checkpoints to the shared thread.
NextConc ==
  \/ \E c \in CallIds, topic \in {"t"} :
       /\ ~runners["A"]
       /\ StartCall(c, "A", topic)
  \/ \E c \in CallIds, v \in ConcValues :
       /\ MayResume("A", v)
       /\ ResumeCall(c, "A", v)
  \/ \E c \in CallIds : EngineStep(c, {<<>>}, {"x"})

SpecConc == Init /\ [][NextConc]_vars

\* The values the clients of NextTwo resume with.
TwoValues == {EmptyDict, KnownNotIterable, ActionDict("continue")}

\* The session a call slot of NextTwo serves, and the topic its client
\* starts it with.
SessionOf(c) == IF c = 1 THEN "A" ELSE "B"
TopicOf(c) == IF c = 1 THEN "t" ELSE "u"

\* Two sessions, each with a client that issues one call at a time; the
\* calls of the two sessions run concurrently.  Each session id has its own
\* runner in workflow_runners and its own thread_id (create_session).
NextTwo ==
  \/ \E c \in CallIds :
       /\ ~runners[SessionOf(c)]
       /\ NoCallRunning(SessionOf(c))
       /\ StartCall(c, SessionOf(c), TopicOf(c))
  \/ \E c \in CallIds, v \in TwoValues :
       /\ NoCallRunning(SessionOf(c))
       /\ MayResume(SessionOf(c), v)
       /\ ResumeCall(c, SessionOf(c), v)
  \/ \E c \in CallIds : EngineStep(c, {<<>>}, {"x"})
  \/ \E s \in SessionIds : NoCallRunning(s) /\ DeleteSession(s)

SpecTwo == Init /\ [][NextTwo]_vars

\* The session of Next with a client that also uses the start and state
\* endpoints of api_server.py between its calls and answers a prerequisite
\* selection through the resume endpoint.
NextApi ==
  \/ Next
  \/ \E selected \in SeqsUpTo(KnownNames, MaxKnown) :
       /\ NoCallRunning("A")
       /\ ckpt["A"].next = "human_selection"
       /\ ResumeSession(1, "A", "select_prerequisites", "", selected)
  \/ NoCallRunning("A") /\ StreamSession("A")
  \/ NoCallRunning("A") /\ InspectSession(1, "A")

SpecApi == Init /\ [][NextApi]_vars

\* The states route_after_topic_review is applied to below: every
\* combination of the fields a router of edges.py reads at this point.
RouterStates ==
  {[AgentState EXCEPT
      !.current_lesson = lesson,
      !.topic_complete = done,
      !.awaiting_user_input = awaiting,
      !.workflow_stage = stage] :
     lesson \in {<<>>} \cup {<<t>> : t \in Texts},
     done \in BOOLEAN, awaiting \in BOOLEAN, stage \in Stages}

\* topic_review has just returned on one of RouterStates and its
\* conditional edge is about to be evaluated.
InitRouter ==
  /\ runners = [s \in SessionIds |-> s = "A"]
  /\ ckpt = [s \in SessionIds |-> NoCheckpoint]
  /\ \E state \in RouterStates :
       call = [c \in CallIds |->
                 IF c = 1
                 THEN [IdleCall EXCEPT
                         !.status = "routing", !.sid = "A",
                         !.kind = "resume", !.pc = "topic_review",
                         !.values = state, !.trail = <<"topic_review">>]
                 ELSE IdleCall]

\* The conditional edge of topic_review: the router's value is looked up
\* in the path map and names the node that runs next.
ApplyRouteAfterTopicReview(c) ==
  /\ call[c].status = "routing"
  /\ call[c].pc = "topic_review"
  /\ Route("topic_review", call[c].values) \in DOMAIN EdgeMap("topic_review")
  /\ call' = [call EXCEPT
       ![c].status = "routed",
       ![c].took = Route("topic_review", call[c].values),
       ![c].pc = Successor("topic_review", call[c].values)]
  /\ UNCHANGED <<runners, ckpt>>

NextRouter == ApplyRouteAfterTopicReview(1)

SpecRouter == InitRouter /\ [][NextRouter]_vars

\* The values the client of NextLive resumes with: well-formed selections,
\* and at a topic review a question or continue.
LiveValues ==
  {EmptyDict, ActionDict("continue"), AskDict("q")}
    \cup {KnownDict(k) : k \in SeqsUpTo(KnownNames, MaxKnown)}

\* One started session whose collaborator calls all succeed and whose
\* client answers every suspension, a topic review with continue after at
\* most MaxQuestions questions.
NextLive ==
  \/ /\ ~runners["A"]
     /\ NoCallRunning("A")
     /\ StartCall(1, "A", "t")
  \/ \E v \in LiveValues :
       /\ NoCallRunning("A")
       /\ MayResume("A", v)
       /\ ResumeCall(1, "A", v)
  \/ \E lines \in PrereqReplies : StepPrerequisites(1, lines)
  \/ SuspendHumanSelection(1)
  \/ StepHumanSelection(1)
  \/ \E lines \in RoadmapReplies(call[1].values) : StepRoadmap(1, lines)
  \/ \E lines \in RoadmapReplies(call[1].values) : RaiseRoadmap(1, lines)
  \/ StepResearch(1)
  \/ StepCritique(1)
  \/ \E text \in Texts : StepGeneration(1, text)
  \/ SuspendTopicReview(1)
  \/ \E answer \in Answers : StepTopicReview(1, answer)
  \/ StepProgress(1)
  \/ \E text \in Texts : SuspendSessionSummary(1, text)
  \/ \E text \in Texts : StepSessionSummary(1, text)
  \/ SuspendSessionCompletion(1)
  \/ StepSessionCompletion(1)

\* The engine loop runs a call until it suspends, ends or raises, and the
\* client keeps answering: some step is always taken while one is possible.
SpecLive == Init /\ [][NextLive]_vars /\ WF_vars(NextLive)

\* ------------------------------------------------------------------ single-file graph

\* AgentState of agent/graph.py: the fields of core/state.py without
\* questions_asked.
graph_AgentState ==
  [f \in DOMAIN AgentState \ {"questions_asked"} |-> AgentState[f]]

\* The message of the question branch of topic_review_node in graph.py,
\* the only message whose content holds "Q&A about".
graph_qa_message == AI("Q&A about")

\* graph_topic_review_node whose regenerate branch marks the topic complete.
graph_topic_review_node_regenerate_completes(state, user_feedback, answer) ==
  CASE topic_review_branch(user_feedback) = "ask" ->
         [messages |-> <<graph_qa_message>>,
          awaiting_user_input |-> TRUE,
          topic_complete |-> FALSE,
          last_qa_question |-> user_question(user_feedback),
          last_qa_answer |-> answer]
    [] topic_review_branch(user_feedback) = "regenerate" ->
         [messages |-> <<AI("topic_review")>>,
          awaiting_user_input |-> FALSE,
          topic_complete |-> TRUE,
          current_lesson |-> <<>>]
    [] OTHER ->
         [messages |-> <<AI("topic_review")>>,
          awaiting_user_input |-> FALSE,
          topic_complete |-> TRUE,
          last_qa_question |-> "",
          last_qa_answer |-> ""]

\* topic_review_node of graph.py, the code after interrupt() returned: the
\* one of nodes/learning.py without the questions_asked entries.
graph_topic_review_node(state, user_feedback, answer) ==
  CASE topic_review_branch(user_feedback) = "ask" ->
         [messages |-> <<graph_qa_message>>,
          awaiting_user_input |-> TRUE,
          topic_complete |-> FALSE,
          last_qa_question |-> user_question(user_feedback),
          last_qa_answer |-> answer]
    [] topic_review_branch(user_feedback) = "regenerate" ->
         [messages |-> <<AI("topic_review")>>,
          awaiting_user_input |-> FALSE,
          topic_complete |-> FALSE,
          current_lesson |-> <<>>]
    [] OTHER ->
         [messages |-> <<AI("topic_review")>>,
          awaiting_user_input |-> FALSE,
          topic_complete |-> TRUE,
          last_qa_question |-> "",
          last_qa_answer |-> ""]

\* questions_asked of session_summary_node in graph.py: one entry for each
\* message of state.messages whose content holds "Q&A about".
graph_questions_asked(state) ==
  SelectSeq(state.messages, LAMBDA m : m = graph_qa_message)

graph_session_completion_data(state, text) ==
  <<[session_complete |-> TRUE,
     summary_generated |-> TRUE,
     initial_topic |-> state.initial_topic,
     total_topics_learned |-> Len(state.completed_topics),
     total_topics_planned |-> Len(state.learning_roadmap),
     learning_roadmap |-> state.learning_roadmap,
     completed_topics |-> state.completed_topics,
     prerequisites_known |-> state.known_prerequisites,
     prerequisites_learned |-> state.unknown_prerequisites,
     questions_asked_count |-> Len(graph_questions_asked(state)),
     session_summary |-> text]>>

graph_session_summary_interrupt(state, text) ==
  [type |-> "session_summary_display",
   prerequisites |-> <<>>,
   topic |-> "",
   lesson_content |-> <<"summary", text>>,
   data |-> graph_session_completion_data(state, text)]

graph_session_summary_node(state, text) ==
  [messages |-> <<AI("session_summary")>>,
   workflow_stage |-> "complete",
   session_completion_data |-> graph_session_completion_data(state, text),
   current_lesson |-> <<"summary", text>>,
   topic_complete |-> TRUE,
   awaiting_user_input |-> TRUE]

\* The path maps of create_graph in graph.py: those of workflow.py, and
\* "complete" to the end for the router of roadmap_agent.
graph_EdgeMap(node) ==
  IF node = "roadmap_agent"
  THEN [research |-> "research_agent", complete |-> END]
  ELSE EdgeMap(node)

graph_Successor(node, state) == graph_EdgeMap(node)[Route(node, state)]

\* What the environment supplies to one move of a session: the topic of a
\* start, the value of a resume, the reply of the model call of a step, or
\* the failure of the collaborator call of a step.
Input(kind, topic, value, lines, text, answer) ==
  [kind |-> kind, topic |-> topic, value |-> value, lines |-> lines,
   text |-> text, answer |-> answer]

NoInput == Input("", "", <<>>, <<>>, "", "")

\* The replies the collaborator of node can give on state.
StepInputs(node, state) ==
  CASE node = "prerequisites_agent" ->
         {Input("step", "", <<>>, lines, "", "") : lines \in PrereqReplies}
    [] node = "roadmap_agent" ->
         {Input("step", "", <<>>, lines, "", "") :
            lines \in RoadmapReplies(state)}
    [] node \in {"generation_agent_main", "session_summary"} ->
         {Input("step", "", <<>>, <<>>, text, "") : text \in Texts}
    [] node = "topic_review" ->
         {Input("step", "", <<>>, <<>>, "", answer) : answer \in Answers}
    [] OTHER -> {Input("step", "", <<>>, <<>>, "", "")}

\* The call record of the session on the single-file graph: that of
\* IdleCall, the input of its latest move, and the record the other
\* session's call had when it made that move.
GraphIdleCall ==
  [IdleCall EXCEPT !.values = graph_AgentState]
    @@ [input |-> NoInput, peer |-> <<>>]

\* Session "A" runs on the graph of workflow.py in call slot 1 and session
\* "B" on the graph of graph.py in call slot 2.
InitBoth ==
  /\ runners = [s \in SessionIds |-> FALSE]
  /\ ckpt = [s \in SessionIds |->
              IF s = "B"
              THEN [NoCheckpoint EXCEPT !.values = graph_AgentState]
              ELSE NoCheckpoint]
  /\ call = [c \in CallIds |-> IF c = 2 THEN GraphIdleCall ELSE IdleCall]

\* Session "B" moves first and session "A" follows with the same input:
\* it is B's turn when A has followed B's latest move.
GraphTurn ==
  IF call[2].peer = <<>> THEN TRUE ELSE call[2].peer[1] # call[1]

\* The record of B's call after a move with input x.
Moved(record, x) == [record EXCEPT !.input = x, !.peer = <<call[1]>>]

\* start_learning_session of graph.py up to the first step.
GraphStart(topic) ==
  LET values == Merge(IF ckpt["B"].saved THEN ckpt["B"].values
                      ELSE graph_AgentState,
                      initial_state(topic))
  IN /\ GraphTurn
     /\ call[2].status # "running"
     /\ ~runners["B"]
     /\ runners' = [runners EXCEPT !["B"] = TRUE]
     /\ ckpt' = [ckpt EXCEPT !["B"] =
          [saved |-> TRUE, values |-> values,
           next |-> "prerequisites_agent", interrupt |-> <<>>]]
     /\ call' = [call EXCEPT ![2] =
          Moved([GraphIdleCall EXCEPT
                   !.status = "running", !.sid = "B", !.kind = "start",
                   !.pc = "prerequisites_agent", !.values = values,
                   !.before = ckpt["B"].interrupt],
                Input("start", topic, <<>>, <<>>, "", ""))]

\* The values the client resumes both sessions with; it counts the
\* questions it has asked.
GraphMayResume(user_response) ==
  CASE ckpt["B"].next = "human_selection" -> user_response \in SelectionValues
    [] ckpt["B"].next = "topic_review" ->
         /\ user_response \in ReviewValues
         /\ \/ topic_review_branch(user_response) # "ask"
            \/ Len(ckpt["A"].values.questions_asked) < MaxQuestions
    [] OTHER -> user_response = EmptyDict

\* resume_with_response of graph.py up to the first step.
GraphResume(user_response) ==
  /\ GraphTurn
  /\ call[2].status # "running"
  /\ runners["B"]
  /\ ckpt["B"].saved
  /\ ckpt["B"].next \in Nodes
  /\ GraphMayResume(user_response)
  /\ call' = [call EXCEPT ![2] =
       Moved([GraphIdleCall EXCEPT
                !.status = "running", !.sid = "B", !.kind = "resume",
                !.pc = ckpt["B"].next, !.values = ckpt["B"].values,
                !.resume = <<user_response>>,
                !.before = ckpt["B"].interrupt,
                !.took = Branch(ckpt["B"].next, user_response)],
             Input("resume", "", <<user_response>>, <<>>, "", ""))]
  /\ UNCHANGED <<runners, ckpt>>

\* The node of graph.py raises before it returns.
graph_raises(node, state, resume, x) ==
  \/ /\ node = "human_selection"
     /\ resume # <<>>
     /\ human_selection_raises(state, resume[1])
  \/ /\ node = "roadmap_agent"
     /\ roadmap_agent_raises(state, x.lines)

\* The node of graph.py calls interrupt() and no resume value is at hand.
graph_suspends(node, state, resume) ==
  /\ resume = <<>>
  /\ node \in {"human_selection", "topic_review", "session_summary",
               "session_completion"}

\* The payload the node of graph.py passes to interrupt().
graph_interrupt(node, state, x) ==
  CASE node = "human_selection" -> human_selection_interrupt(state)
    [] node = "topic_review" -> topic_review_interrupt(state)
    [] node = "session_summary" -> graph_session_summary_interrupt(state, x.text)
    [] node = "session_completion" -> session_completion_interrupt(state)

\* The update the node of graph.py returns; the nodes that graph.py and
\* agent/nodes hold in the same words share their definition.
graph_update(node, state, resume, x) ==
  CASE node = "prerequisites_agent" -> prerequisites_agent_node(state, x.lines)
    [] node = "human_selection" -> human_selection_node(state, resume[1])
    [] node = "roadmap_agent" -> roadmap_agent_node(state, x.lines)
    [] node = "research_agent" -> research_agent_node(state)
    [] node = "critique_agent" -> critique_agent_node(state)
    [] node = "generation_agent_main" ->
         generation_agent_node_main(state, x.text)
    [] node = "topic_review" ->
         graph_topic_review_node(state, resume[1], x.answer)
    [] node = "progress_tracker" -> progress_tracker_node(state)
    [] node = "session_summary" -> graph_session_summary_node(state, x.text)
    [] node = "session_completion" -> session_completion_node(state)

\* The collaborator call of the running node of session B failed.
GraphFail ==
  /\ GraphTurn
  /\ call[2].status = "running"
  /\ CallsCollaborator(call[2].pc, call[2].values, call[2].resume)
  /\ call' = [call EXCEPT ![2] =
       Moved([@ EXCEPT !.status = "failed", !.failed_at = call[2].pc,
                       !.cause = "collaborator", !.resume = <<>>],
             Input("fail", "", <<>>, <<>>, "", ""))]
  /\ UNCHANGED <<runners, ckpt>>

\* The running node of session B raised.
GraphRaise(x) ==
  /\ GraphTurn
  /\ call[2].status = "running"
  /\ graph_raises(call[2].pc, call[2].values, call[2].resume, x)
  /\ call' = [call EXCEPT ![2] =
       Moved([@ EXCEPT !.status = "failed", !.failed_at = call[2].pc,
                       !.cause = "raised", !.resume = <<>>], x)]
  /\ UNCHANGED <<runners, ckpt>>

\* The running node of session B called interrupt() without a resume value.
GraphSuspend(x) ==
  LET payload == graph_interrupt(call[2].pc, call[2].values, x)
  IN /\ GraphTurn
     /\ call[2].status = "running"
     /\ graph_suspends(call[2].pc, call[2].values, call[2].resume)
     /\ ckpt' = [ckpt EXCEPT !["B"].interrupt = <<payload>>]
     /\ call' = [call EXCEPT ![2] =
          Moved([@ EXCEPT !.status = "returned",
                          !.interrupt = <<payload>>,
                          !.workflow_completed =
                            /\ call[2].kind = "resume"
                            /\ workflow_completed(ckpt["B"])], x)]
     /\ UNCHANGED runners

\* The running node of session B returned its update.
GraphComplete(x) ==
  LET node == call[2].pc
      values == Merge(call[2].values,
                      graph_update(node, call[2].values, call[2].resume, x))
      nxt == graph_Successor(node, values)
      saved == [saved |-> TRUE, values |-> values, next |-> nxt,
                interrupt |-> <<>>]
  IN /\ GraphTurn
     /\ call[2].status = "running"
     /\ ~graph_raises(node, call[2].values, call[2].resume, x)
     /\ ~graph_suspends(node, call[2].values, call[2].resume)
     /\ ckpt' = [ckpt EXCEPT !["B"] = saved]
     /\ call' = [call EXCEPT ![2] =
          Moved([@ EXCEPT !.values = values, !.pc = nxt, !.resume = <<>>,
                          !.trail = Append(@, node),
                          !.status =
                            IF nxt = END THEN "returned" ELSE "running",
                          !.workflow_completed =
                            /\ nxt = END
                            /\ call[2].kind = "resume"
                            /\ workflow_completed(saved)], x)]
     /\ UNCHANGED runners

\* The step of the engine loop of session A on the reply B's step had.
FollowStep(x) ==
  \/ StepPrerequisites(1, x.lines)
  \/ SuspendHumanSelection(1)
  \/ StepHumanSelection(1)
  \/ RaiseHumanSelection(1)
  \/ StepRoadmap(1, x.lines)
  \/ RaiseRoadmap(1, x.lines)
  \/ StepResearch(1)
  \/ StepCritique(1)
  \/ StepGeneration(1, x.text)
  \/ SuspendTopicReview(1)
  \/ StepTopicReview(1, x.answer)
  \/ StepProgress(1)
  \/ SuspendSessionSummary(1, x.text)
  \/ StepSessionSummary(1, x.text)
  \/ SuspendSessionCompletion(1)
  \/ StepSessionCompletion(1)

\* Session A makes the move session B made, with the same input.
Follow ==
  /\ ~GraphTurn
  /\ \/ call[2].input.kind = "start"
        /\ StartCall(1, "A", call[2].input.topic)
     \/ call[2].input.kind = "resume"
        /\ ResumeCall(1, "A", call[2].input.value[1])
     \/ call[2].input.kind = "fail" /\ FailCollaborator(1)
     \/ call[2].input.kind = "step" /\ FollowStep(call[2].input)

\* The two sessions, given the same topic, resume values and collaborator
\* outcomes move for move.
NextBoth ==
  \/ GraphStart("t")
  \/ \E v \in ResumeValues : GraphResume(v)
  \/ GraphFail
  \/ \E x \in StepInputs(call[2].pc, call[2].values) : GraphRaise(x)
  \/ \E x \in StepInputs(call[2].pc, call[2].values) : GraphSuspend(x)
  \/ \E x \in StepInputs(call[2].pc, call[2].values) : GraphComplete(x)
  \/ Follow

SpecBoth == InitBoth /\ [][NextBoth]_vars

\* ------------------------------------------------------------------ progress

\* The argument of ProgressTracker.calculate_progress: None, a value that is
\* not a dict, an empty dict, or a dict with the entries of values.
StateArg(kind, values) == [kind |-> kind, values |-> values]

\* The "state" entry a runner call or get_session_state returns for a
\* thread: the values of its checkpoint, an empty dict without one.
StateOf(checkpoint) ==
  IF checkpoint.saved
  THEN StateArg("dict", checkpoint.values)
  ELSE StateArg("empty", AgentState)

\* What calculate_progress returns for None, an empty or a non-dict state.
NoProgress ==
  [total_topics |-> 0, completed_count |-> 0, current_topic |-> "",
   remaining_topics |-> <<>>, learning_roadmap |-> <<>>]

\* learning_roadmap[current_topic_index + 1:] when the index is below the
\* last position, else the empty list.
remaining_topics(learning_roadmap, current_topic_index) ==
  IF learning_roadmap # <<>>
       /\ current_topic_index < Len(learning_roadmap) - 1
  THEN SubSeq(learning_roadmap, current_topic_index + 2,
              Len(learning_roadmap))
  ELSE <<>>

\* ProgressTracker.calculate_progress; progress_percentage, a quotient of
\* the two counts, is left out.
calculate_progress(state) ==
  IF state.kind # "dict"
  THEN NoProgress
  ELSE [total_topics |-> Len(state.values.learning_roadmap),
        completed_count |-> Len(state.values.completed_topics),
        current_topic |-> state.values.current_topic,
        remaining_topics |->
          remaining_topics(state.values.learning_roadmap,
                           state.values.current_topic_index),
        learning_roadmap |-> state.values.learning_roadmap]

\* ------------------------------------------------------------------ claims

\* Session s has passed human_selection: its checkpoint names a later node.
AfterSelection(s) ==
  /\ ckpt[s].saved
  /\ ckpt[s].next \notin {"prerequisites_agent", "human_selection"}

\* The engine has stopped for session s: it has a checkpoint and no call runs.
Stopped(s) == ckpt[s].saved /\ NoCallRunning(s)

\* C1: in every state after human_selection has completed, known_prerequisites
\* and unknown_prerequisites share no element and their union, as sets, is
\* prerequisites.
C1_Partition ==
  \A s \in SessionIds :
    AfterSelection(s) =>
      LET v == ckpt[s].values
      IN /\ Range(v.known_prerequisites) \cap Range(v.unknown_prerequisites) = {}
         /\ Range(v.known_prerequisites) \cup Range(v.unknown_prerequisites)
              = Range(v.prerequisites)

\* A state after human_selection in which some prerequisites are known and
\* some are not.
C1_Witness ==
  \E s \in SessionIds :
    /\ AfterSelection(s)
    /\ ckpt[s].values.known_prerequisites # <<>>
    /\ ckpt[s].values.unknown_prerequisites # <<>>

\* C2: wherever the engine has stopped, awaiting_user_input is true exactly
\* when a suspension is pending.
C2_AwaitingIffPending ==
  \A s \in SessionIds :
    Stopped(s) =>
      (ckpt[s].values.awaiting_user_input <=> ckpt[s].interrupt # <<>>)

IsPrefix(a, b) == Len(a) <= Len(b) /\ SubSeq(b, 1, Len(a)) = a

\* C3: when the engine loop of a start call begins, the state holds the new
\* topic, stage start and one human message, and every other field has its
\* default value, also when the id had stored state.
C3_StartIsFresh ==
  \A c \in CallIds :
    (call[c].status = "running" /\ call[c].kind = "start"
       /\ call[c].trail = <<>>) =>
      call[c].values =
        [AgentState EXCEPT !.initial_topic = call[c].values.initial_topic,
                           !.messages = <<Human("start")>>,
                           !.workflow_stage = "start"]

\* C4: every step keeps the conversation it found as a prefix of the
\* conversation it leaves.
C4_ConversationAppendOnly ==
  [][\A s \in SessionIds :
       (ckpt[s].saved /\ ckpt'[s].saved) =>
         IsPrefix(ckpt[s].values.messages, ckpt'[s].values.messages)]_vars

\* C5: a non-empty stored roadmap ends with the topic.
C5_RoadmapTail ==
  \A s \in SessionIds :
    LET v == ckpt[s].values
    IN v.learning_roadmap # <<>> =>
         v.learning_roadmap[Len(v.learning_roadmap)] = v.initial_topic

\* C6: no resume value makes human_selection or topic_review raise: a call
\* fails there only when a collaborator call failed.
C6_MalformedResumeNeverFails ==
  \A c \in CallIds :
    ~(/\ call[c].status = "failed"
      /\ call[c].failed_at \in {"human_selection", "topic_review"}
      /\ call[c].cause = "raised")

\* C7: right after human_selection was resumed with a value that is no
\* mapping holding known_prerequisites, unknown_prerequisites equals
\* prerequisites, known_prerequisites is empty, the stage is roadmap and
\* awaiting_user_input is false.
C7_MalformedSelectionDefault ==
  \A c \in CallIds :
    (call[c].trail = <<"human_selection">> /\ call[c].took = "default") =>
      LET v == ckpt[call[c].sid].values
      IN /\ v.unknown_prerequisites = v.prerequisites
         /\ v.known_prerequisites = <<>>
         /\ v.workflow_stage = "roadmap"
         /\ ~v.awaiting_user_input

\* human_selection has just completed on a malformed value, with
\* prerequisites to learn.
C7_Witness ==
  \E c \in CallIds :
    /\ call[c].trail = <<"human_selection">>
    /\ call[c].took = "default"
    /\ ckpt[call[c].sid].values.prerequisites # <<>>

\* C8 as stated: after a call failed in a collaborator call, the pending
\* suspension is the one that was pending before the call.
C8_SamePendingAfterFailure ==
  \A c \in CallIds :
    (call[c].status = "failed" /\ call[c].cause = "collaborator") =>
      ckpt[call[c].sid].interrupt = call[c].before

\* C8 amended: after a failed resume call the pending suspension is the one
\* from before the call when no step of the call had completed; when a step
\* had completed, its update is committed and no suspension is pending.
C8_PendingAfterFailedResume ==
  \A c \in CallIds :
    (call[c].status = "failed" /\ call[c].kind = "resume") =>
      /\ call[c].trail = <<>> =>
           ckpt[call[c].sid].interrupt = call[c].before
      /\ call[c].trail # <<>> =>
           /\ ckpt[call[c].sid].interrupt = <<>>
           /\ ckpt[call[c].sid].values = call[c].values

\* A resume failed in a collaborator call of the suspended node itself, the
\* suspension still pending.
C8_Witness ==
  \E c \in CallIds :
    /\ call[c].status = "failed"
    /\ call[c].kind = "resume"
    /\ call[c].cause = "collaborator"
    /\ call[c].trail = <<>>
    /\ call[c].before # <<>>
    /\ ckpt[call[c].sid].interrupt # <<>>

\* C9: after a call failed, the stored state is the state saved after the
\* last step that completed, and the failing node is still the next one.
C9_FailureKeepsLastSaved ==
  \A c \in CallIds :
    call[c].status = "failed" =>
      /\ ckpt[call[c].sid].values = call[c].values
      /\ ckpt[call[c].sid].next = call[c].failed_at

\* A call failed after an earlier step of it had completed.
C9_Witness ==
  \E c \in CallIds :
    /\ call[c].status = "failed"
    /\ call[c].trail # <<>>
    /\ call[c].failed_at = "roadmap_agent"
    /\ call[c].cause = "collaborator"

\* C10: at most one start or resume call runs per session id at a time.
C10_OneCallInFlight ==
  \A s \in SessionIds :
    Cardinality({c \in CallIds :
                   call[c].status = "running" /\ call[c].sid = s}) <= 1

\* What inspect returns for session s changes in this step.
Changed(s) == ckpt'[s] # ckpt[s] \/ runners'[s] # runners[s]

\* C11: a step changes the snapshot and the pending suspension of one
\* session at most, and a step of a call changes those of no session but
\* the call's own.
C11_SessionsIsolated ==
  [][/\ \A s1, s2 \in SessionIds :
          (Changed(s1) /\ Changed(s2)) => s1 = s2
     /\ \A c \in CallIds :
          call'[c] # call[c] =>
            \A s \in SessionIds \ {call[c].sid, call'[c].sid} : ~Changed(s)]_vars

\* A call of session A runs while session B is suspended on a different
\* stored state.
C11_Witness ==
  /\ call[1].status = "running"
  /\ call[1].sid = "A"
  /\ call[1].trail # <<>>
  /\ ckpt["B"].interrupt # <<>>
  /\ ckpt["B"].values # ckpt["A"].values

\* C12: a session has one pending suspension at most; a resume of a pending
\* suspension that succeeded returns the suspension inspect shows, and it
\* returns none only when the terminal node has been reached.
C12_SinglePending ==
  /\ \A s \in SessionIds : Len(ckpt[s].interrupt) <= 1
  /\ \A c \in CallIds :
       (call[c].status = "returned" /\ call[c].kind = "resume"
          /\ call[c].before # <<>>) =>
         /\ call[c].interrupt = ckpt[call[c].sid].interrupt
         /\ call[c].interrupt = <<>> <=> ckpt[call[c].sid].next = END

\* A resume of a pending suspension returned at the terminal node, and
\* nothing is pending.
C12_Witness ==
  \E c \in CallIds :
    /\ call[c].status = "returned"
    /\ call[c].kind = "resume"
    /\ call[c].before # <<>>
    /\ call[c].interrupt = <<>>
    /\ ckpt[call[c].sid].next = END

\* C13: the completed flag a resume returns is true exactly when the resume
\* ran the session through session_completion to the terminal node.
C13_CompletedIffTerminal ==
  \A c \in CallIds :
    (call[c].status = "returned" /\ call[c].kind = "resume") =>
      (call[c].workflow_completed <=>
         (call[c].pc = END
            /\ call[c].trail[Len(call[c].trail)] = "session_completion"))

\* C14: the summary data stored by a resume of the session_summary_display
\* suspension is the data that suspension showed, the model not being
\* called again.
C14_SummaryNotReplayed ==
  \A c \in CallIds :
    (/\ call[c].kind = "resume"
     /\ call[c].before # <<>>
     /\ call[c].trail # <<>>
     /\ call[c].trail[1] = "session_summary") =>
      call[c].values.session_completion_data = call[c].before[1].data

\* C15: the roadmap step does not fail on a reply without items: it stores
\* an empty roadmap, an empty current topic, index 0 and stage learning.
C15_EmptyRoadmapCompletes ==
  /\ \A c \in CallIds :
       ~(/\ call[c].status = "failed"
         /\ call[c].failed_at = "roadmap_agent"
         /\ call[c].cause = "raised")
  /\ \A s \in SessionIds :
       (ckpt[s].next = "research_agent"
          /\ ckpt[s].values.learning_roadmap = <<>>) =>
         /\ ckpt[s].values.current_topic = ""
         /\ ckpt[s].values.current_topic_index = 0
         /\ ckpt[s].values.workflow_stage = "learning"

\* C16: current_topic_index never exceeds the length of the roadmap, and
\* once it equals the length of a built roadmap every roadmap topic is in
\* completed_topics and the stage is session_summary or complete.
C16_CursorBound ==
  \A s \in SessionIds :
    LET v == ckpt[s].values
    IN /\ v.current_topic_index <= Len(v.learning_roadmap)
       /\ (v.learning_roadmap # <<>>
             /\ v.current_topic_index = Len(v.learning_roadmap)) =>
            /\ Range(v.learning_roadmap) \subseteq Range(v.completed_topics)
            /\ v.workflow_stage \in {"session_summary", "complete"}

\* C17: no step of a session lowers current_topic_index, and a session at
\* the session summary has current_topic_index equal to the length of the
\* roadmap.
C17_MonotoneCursor ==
  /\ [][\A s \in SessionIds :
          (ckpt[s].saved /\ ckpt'[s].saved) =>
            ckpt'[s].values.current_topic_index
              >= ckpt[s].values.current_topic_index]_vars
  /\ [](\A s \in SessionIds :
          ckpt[s].next = "session_summary" =>
            ckpt[s].values.current_topic_index
              = Len(ckpt[s].values.learning_roadmap))

\* The second progress invocation of a session has led to the summary.
C17_Witness ==
  \E s \in SessionIds :
    /\ ckpt[s].next = "session_summary"
    /\ ckpt[s].values.current_topic_index = 2
    /\ Len(ckpt[s].values.completed_topics) = 2

\* The place of a stage in the order start, prerequisites, human_selection,
\* roadmap, learning, session_summary, complete.
StageRank(stage) ==
  CASE stage = "start" -> 0
    [] stage = "prerequisites" -> 1
    [] stage = "human_selection" -> 2
    [] stage = "roadmap" -> 3
    [] stage = "learning" -> 4
    [] stage = "session_summary" -> 5
    [] stage = "complete" -> 6

\* The steps of the research, review and regenerate loop.
LearningLoop ==
  {"research_agent", "critique_agent", "generation_agent_main",
   "topic_review"}

\* C18: no step of a session moves workflow_stage backwards in the order of
\* the stages, and the steps of the learning loop leave it unchanged.
C18_StageMonotone ==
  [][\A s \in SessionIds :
       (ckpt[s].saved /\ ckpt'[s].saved) =>
         /\ StageRank(ckpt'[s].values.workflow_stage)
              >= StageRank(ckpt[s].values.workflow_stage)
         /\ ckpt[s].next \in LearningLoop =>
              ckpt'[s].values.workflow_stage = ckpt[s].values.workflow_stage]_vars

\* A regenerated lesson has been generated again, the stage still learning,
\* in a session that goes through every stage it sets.
C18_Witness ==
  \E c \in CallIds :
    /\ call[c].took = "regenerate"
    /\ Len(call[c].trail) = 4
    /\ call[c].values.workflow_stage = "learning"

\* The order in which a regenerating call runs the learning steps.
RegenerateTrail ==
  <<"topic_review", "research_agent", "critique_agent",
    "generation_agent_main">>

\* C19: a resume of a pending topic review with action regenerate that
\* returns has run topic_review, research, critique and generation once
\* each, in that order, and stops at a topic review of the same topic with
\* a lesson that is not empty.
C19_RegenerateLoop ==
  \A c \in CallIds :
    (/\ call[c].status = "returned"
     /\ call[c].kind = "resume"
     /\ call[c].took = "regenerate"
     /\ call[c].before # <<>>) =>
      /\ call[c].trail = RegenerateTrail
      /\ call[c].interrupt # <<>>
      /\ call[c].interrupt[1].type = "topic_review"
      /\ call[c].interrupt[1].topic = call[c].before[1].topic
      /\ call[c].interrupt[1].lesson_content # <<>>
      /\ ckpt[call[c].sid].values.current_lesson # <<>>

\* A regenerating resume has returned with a lesson whose text differs from
\* the one it was asked to replace.
C19_Witness ==
  \E c \in CallIds :
    /\ call[c].status = "returned"
    /\ call[c].took = "regenerate"
    /\ call[c].before # <<>>
    /\ call[c].interrupt # <<>>
    /\ call[c].interrupt[1].lesson_content # call[c].before[1].lesson_content

\* C20: the step that answers a question of a pending topic review appends
\* one (question, answer) pair to questions_asked, keeps awaiting_user_input
\* true, topic_complete false, the topic and the lesson, and leads to
\* topic_review again; the call then stops at a topic review of the same
\* topic and lesson, having run no other step.
C20_AskLoop ==
  /\ [][\A c \in CallIds :
          (/\ Running(c, "topic_review")
           /\ call[c].took = "ask"
           /\ call[c].resume # <<>>
           /\ call'[c] # call[c]
           /\ call'[c].status # "failed") =>
            LET old == call[c].values
                new == call'[c].values
            IN /\ new.questions_asked =
                    Append(old.questions_asked,
                           [question |-> call[c].resume[1].question,
                            answer |-> new.last_qa_answer])
               /\ new.awaiting_user_input
               /\ ~new.topic_complete
               /\ new.current_topic = old.current_topic
               /\ new.current_lesson = old.current_lesson
               /\ call'[c].pc = "topic_review"]_vars
  /\ [](\A c \in CallIds :
          (/\ call[c].status = "returned"
           /\ call[c].took = "ask"
           /\ call[c].before # <<>>) =>
            /\ call[c].trail = <<"topic_review">>
            /\ call[c].interrupt # <<>>
            /\ call[c].interrupt[1].type = "topic_review"
            /\ call[c].interrupt[1].topic = call[c].before[1].topic
            /\ call[c].interrupt[1].lesson_content
                 = call[c].before[1].lesson_content)

\* A resume that asked a question has returned at the topic review, the
\* pair in questions_asked.
C20_Witness ==
  \E c \in CallIds :
    /\ call[c].status = "returned"
    /\ call[c].took = "ask"
    /\ call[c].interrupt # <<>>
    /\ Len(call[c].values.questions_asked) = 1
    /\ call[c].values.questions_asked[1].question = "q"

\* A topic review answer that is neither regenerate nor ask_question with a
\* question that is not empty.
ContinueOrMalformed(v) ==
  \/ ~v.isdict
  \/ "action" \notin v.keys
  \/ v.action \notin {"regenerate", "ask_question"}
  \/ /\ v.action = "ask_question"
     /\ ("question" \notin v.keys \/ v.question = "")

\* C21: the topic_review step on such an answer sets topic_complete, clears
\* awaiting_user_input and the last question and answer, keeps
\* questions_asked, and leads to progress_tracker.
C21_MalformedReviewContinues ==
  [][\A c \in CallIds :
       (/\ Running(c, "topic_review")
        /\ call[c].resume # <<>>
        /\ ContinueOrMalformed(call[c].resume[1])
        /\ call'[c] # call[c]) =>
         LET old == call[c].values
             new == call'[c].values
         IN /\ call'[c].status = "running"
            /\ call'[c].pc = "progress_tracker"
            /\ new.topic_complete
            /\ ~new.awaiting_user_input
            /\ new.last_qa_question = ""
            /\ new.last_qa_answer = ""
            /\ new.questions_asked = old.questions_asked]_vars

\* A topic review was answered with a value that is no mapping after a
\* question had been asked: the pair is kept, the last question cleared.
C21_Witness ==
  \E c \in CallIds :
    /\ call[c].took = "fallback"
    /\ call[c].trail = <<"topic_review">>
    /\ call[c].values.questions_asked # <<>>
    /\ call[c].values.last_qa_question = ""

\* C22: a resume, an inspect and a delete for a session id without stored
\* state are each answered not-found.
C22_UnknownSessionNotFound ==
  \A s \in SessionIds :
    ~ckpt[s].saved =>
      /\ resume_tutor_session_status(s) = "not_found"
      /\ get_session_state_status(s) = "not_found"
      /\ delete_session_status(s) = "not_found"

\* C23: a delete removes the stored state of the id; while the id is not
\* registered again, resume, inspect and delete answer not-found for it;
\* and the next start of the id begins from the default state.
C23_DeleteRemoves ==
  /\ [][\A s \in SessionIds :
          (runners[s] /\ ~runners'[s]) => ckpt'[s] = NoCheckpoint]_vars
  /\ [](\A s \in SessionIds :
          ~runners[s] =>
            /\ ~ckpt[s].saved
            /\ resume_tutor_session_status(s) = "not_found"
            /\ get_session_state_status(s) = "not_found"
            /\ delete_session_status(s) = "not_found")
  /\ [][\A s \in SessionIds :
          (~runners[s] /\ ckpt'[s].saved) =>
            ckpt'[s].values =
              Merge(AgentState, initial_state(ckpt'[s].values.initial_topic))]_vars

\* A session that had been started has been deleted.
C23_Witness ==
  \E c \in CallIds :
    /\ call[c].kind = "delete"
    /\ ~runners[call[c].sid]
    /\ ~ckpt[call[c].sid].saved

\* C24: an inspect changes nothing that is stored and returns the stored
\* values and the pending suspension; while no start, resume or delete has
\* followed it, its answer is what the next inspect returns.
C24_InspectIdempotent ==
  /\ [][\A c \in CallIds :
          (call'[c].kind = "inspect" /\ call'[c] # call[c]) =>
            /\ ckpt' = ckpt
            /\ runners' = runners
            /\ call'[c].values = ckpt[call'[c].sid].values
            /\ call'[c].interrupt = ckpt[call'[c].sid].interrupt]_vars
  /\ [](\A c \in CallIds :
          call[c].kind = "inspect" =>
            /\ call[c].values = ckpt[call[c].sid].values
            /\ call[c].interrupt = ckpt[call[c].sid].interrupt)

\* An inspect has returned a pending topic review.
C24_Witness ==
  \E c \in CallIds :
    /\ call[c].kind = "inspect"
    /\ call[c].interrupt # <<>>
    /\ call[c].interrupt[1].type = "topic_review"

\* The steps a call runs from a prerequisite selection to the first lesson.
SelectionTrail ==
  <<"human_selection", "roadmap_agent", "research_agent", "critique_agent",
    "generation_agent_main">>

\* C25: the human_selection step on a mapping with a list K under
\* known_prerequisites leaves in unknown_prerequisites the prerequisites
\* that are not in K, in their order; the resume, when it returns, stops at
\* a topic review whose topic is the first topic of the roadmap.
C25_SelectionToFirstReview ==
  /\ [][\A c \in CallIds :
          (/\ Running(c, "human_selection")
           /\ call[c].resume # <<>>
           /\ call[c].took = "list"
           /\ call'[c].status = "running"
           /\ call'[c] # call[c]) =>
            call'[c].values.unknown_prerequisites =
              SelectSeq(call[c].values.prerequisites,
                        LAMBDA p : p \notin Range(call[c].resume[1].known))]_vars
  /\ [](\A c \in CallIds :
          (/\ call[c].status = "returned"
           /\ call[c].kind = "resume"
           /\ call[c].took = "list"
           /\ call[c].before # <<>>) =>
            /\ call[c].trail = SelectionTrail
            /\ call[c].interrupt # <<>>
            /\ call[c].interrupt[1].type = "topic_review"
            /\ call[c].interrupt[1].topic = call[c].values.learning_roadmap[1])

\* A selection that names one of two prerequisites as known has led to the
\* review of the first topic of a roadmap of two.
C25_Witness ==
  \E c \in CallIds :
    /\ call[c].status = "returned"
    /\ call[c].took = "list"
    /\ call[c].values.known_prerequisites = <<"a">>
    /\ call[c].values.unknown_prerequisites = <<"b">>
    /\ Len(call[c].values.learning_roadmap) = 2
    /\ call[c].interrupt # <<>>

\* C26: in a session with a roadmap of one topic, the call that builds the
\* roadmap runs research, critique and generation once each and stops at
\* the topic review, and the resume that answers that review with continue
\* runs topic_review and progress_tracker and stops at the session summary.
C26_SingleTopicCycle ==
  \A c \in CallIds :
    (/\ call[c].status = "returned"
     /\ call[c].kind = "resume"
     /\ call[c].before # <<>>
     /\ Len(call[c].values.learning_roadmap) = 1) =>
      /\ call[c].took \in {"list", "default"} =>
           /\ call[c].trail = SelectionTrail
           /\ call[c].interrupt # <<>>
           /\ call[c].interrupt[1].type = "topic_review"
      /\ call[c].took \in {"continue", "fallback"} =>
           /\ call[c].trail = <<"topic_review", "progress_tracker">>
           /\ call[c].interrupt # <<>>
           /\ call[c].interrupt[1].type = "session_summary_display"
           /\ call[c].values.completed_topics = call[c].values.learning_roadmap
           /\ call[c].values.current_topic_index = 1

\* The review of the only topic was answered with continue and the session
\* stopped at its summary.
C26_Witness ==
  \E c \in CallIds :
    /\ call[c].status = "returned"
    /\ call[c].took = "continue"
    /\ call[c].trail = <<"topic_review", "progress_tracker">>
    /\ Len(call[c].values.learning_roadmap) = 1
    /\ call[c].values.prerequisites = <<>>
    /\ call[c].interrupt # <<>>
    /\ call[c].interrupt[1].type = "session_summary_display"

\* The type of the suspension that was pending when call c began, "" when
\* there was none.
PendingBefore(c) ==
  IF call[c].before = <<>> THEN "" ELSE call[c].before[1].type

\* The type of the suspension call c returned, "" when it returned none.
PendingAfter(c) ==
  IF call[c].interrupt = <<>> THEN "" ELSE call[c].interrupt[1].type

\* C27: the call that completes the last topic stops, when it returns, at
\* the session summary suspension; session_summary completes only as the
\* first step of a resume; the resume of the summary suspension stops at
\* the acknowledgment suspension; and the resume of that one ends at the
\* terminal node with stage complete, awaiting_user_input false and
\* topic_complete true.
C27_CompletionTail ==
  \A c \in CallIds :
    /\ (call[c].status = "returned"
          /\ "progress_tracker" \in Range(call[c].trail)
          /\ call[c].values.current_topic_index
               = Len(call[c].values.learning_roadmap)) =>
         /\ PendingAfter(c) = "session_summary_display"
         /\ call[c].trail[Len(call[c].trail)] = "progress_tracker"
    /\ "session_summary" \in Range(call[c].trail) =>
         /\ call[c].kind = "resume"
         /\ call[c].trail[1] = "session_summary"
    /\ (call[c].status = "returned"
          /\ PendingBefore(c) = "session_summary_display") =>
         /\ call[c].trail = <<"session_summary">>
         /\ PendingAfter(c) = "session_completion_acknowledgment"
    /\ (call[c].status = "returned"
          /\ PendingBefore(c) = "session_completion_acknowledgment") =>
         /\ call[c].trail = <<"session_completion">>
         /\ call[c].pc = END
         /\ ckpt[call[c].sid].next = END
         /\ ckpt[call[c].sid].interrupt = <<>>
         /\ ckpt[call[c].sid].values.workflow_stage = "complete"
         /\ ~ckpt[call[c].sid].values.awaiting_user_input
         /\ ckpt[call[c].sid].values.topic_complete

\* The acknowledgment has been resumed and the session has ended.
C27_Witness ==
  \E c \in CallIds :
    /\ call[c].status = "returned"
    /\ PendingBefore(c) = "session_completion_acknowledgment"
    /\ call[c].pc = END
    /\ Len(call[c].values.completed_topics) = 2

\* C28: a progress step keeps the entries of completed_topics and appends
\* the current topic as the new last entry, adds exactly one to
\* current_topic_index, sets the stage to session_summary exactly when the
\* new index is at or past the end of the roadmap, and otherwise makes
\* roadmap[index] the current topic with topic_complete false; the router
\* goes to session_summary in the first case and to research in the
\* second.
C28_ProgressStep ==
  [][\A c \in CallIds :
       StepProgress(c) =>
         LET old == call[c].values
             new == call'[c].values
             last == new.current_topic_index >= Len(new.learning_roadmap)
         IN /\ new.completed_topics
                 = old.completed_topics \o <<old.current_topic>>
            /\ new.current_topic_index = old.current_topic_index + 1
            /\ new.learning_roadmap = old.learning_roadmap
            /\ (new.workflow_stage = "session_summary") <=> last
            /\ last => call'[c].pc = "session_summary"
            /\ ~last =>
                 /\ new.workflow_stage = old.workflow_stage
                 /\ new.current_topic
                      = new.learning_roadmap[new.current_topic_index + 1]
                 /\ ~new.topic_complete
                 /\ call'[c].pc = "research_agent"
            /\ ckpt'[call[c].sid].values = new]_vars

\* A progress step has moved the session from the first topic of a
\* two-topic roadmap to the second, and a later one has finished it.
C28_Witness ==
  \E c \in CallIds :
    /\ Len(call[c].values.learning_roadmap) = 2
    /\ call[c].values.completed_topics = call[c].values.learning_roadmap
    /\ call[c].values.current_topic_index = 2
    /\ call[c].trail # <<>>
    /\ call[c].trail[Len(call[c].trail)] = "progress_tracker"
    /\ call[c].pc = "session_summary"

\* C29: on every state the router after topic_review returns research_agent
\* when current_lesson is empty, whatever topic_complete is; otherwise
\* progress_tracker when topic_complete is true; otherwise topic_review;
\* and each value it returns is a key of the path map, so that a successor
\* node is always defined.
C29_RouterPriority ==
  \A c \in CallIds :
    /\ call[c].status = "routing" =>
         /\ ENABLED ApplyRouteAfterTopicReview(c)
         /\ Route("topic_review", call[c].values)
              \in DOMAIN EdgeMap("topic_review")
    /\ call[c].status = "routed" =>
         /\ call[c].pc \in Nodes \ {END}
         /\ call[c].pc = EdgeMap("topic_review")[call[c].took]
         /\ call[c].values.current_lesson = <<>> =>
              call[c].pc = "research_agent"
         /\ (call[c].values.current_lesson # <<>>
               /\ call[c].values.topic_complete) =>
              call[c].pc = "progress_tracker"
         /\ (call[c].values.current_lesson # <<>>
               /\ ~call[c].values.topic_complete) =>
              call[c].pc = "topic_review"

\* The router has sent a state with an empty lesson and topic_complete
\* true to research_agent.
C29_Witness ==
  \E c \in CallIds :
    /\ call[c].status = "routed"
    /\ call[c].values.current_lesson = <<>>
    /\ call[c].values.topic_complete
    /\ call[c].pc = "research_agent"

\* C30: when the resume endpoint is given selected_prerequisites S for a
\* session that waits for the prerequisite selection, human_selection
\* returns the members of S that are prerequisites as known_prerequisites
\* and the remaining prerequisites as unknown_prerequisites.
C30_SelectedBecomeKnown ==
  [][\A c \in CallIds :
       (/\ StepHumanSelection(c)
        /\ "selected_prerequisites" \in call[c].resume[1].keys) =>
         LET S == call[c].resume[1].selected
             old == call[c].values
             new == call'[c].values
         IN /\ new.known_prerequisites
                 = FilterSeq(S, Range(old.prerequisites))
            /\ new.unknown_prerequisites
                 = FilterSeq(old.prerequisites,
                             Range(old.prerequisites) \ Range(S))]_vars

\* C31: when no collaborator call fails, every suspension is resumed and
\* every topic review is in the end answered with continue, a started
\* session reaches the terminal node, and there completed_topics equals
\* the roadmap and current_topic_index its length.
C31_ReachesTerminal ==
  [](ckpt["A"].saved =>
       <>(/\ ckpt["A"].next = END
          /\ ckpt["A"].values.completed_topics
               = ckpt["A"].values.learning_roadmap
          /\ ckpt["A"].values.current_topic_index
               = Len(ckpt["A"].values.learning_roadmap)))

\* Session s has passed roadmap_agent: its checkpoint names a later node.
AfterRoadmap(s) ==
  /\ ckpt[s].saved
  /\ ckpt[s].next
       \notin {"prerequisites_agent", "human_selection", "roadmap_agent"}

\* completed is the first cursor elements of the roadmap in state.
CompletedIsPrefix(state) ==
  /\ Len(state.completed_topics) = state.current_topic_index
  /\ state.current_topic_index <= Len(state.learning_roadmap)
  /\ state.completed_topics
       = SubSeq(state.learning_roadmap, 1, state.current_topic_index)

\* C32: in a started session every state saved after the roadmap step,
\* and every state a call holds after it, has as many completed topics as
\* current_topic_index says, and they are the first
\* current_topic_index topics of the roadmap, whatever the client answers
\* the topic reviews with.
C32_CompletedIsRoadmapPrefix ==
  /\ \A s \in SessionIds : AfterRoadmap(s) => CompletedIsPrefix(ckpt[s].values)
  /\ \A c \in CallIds :
       (call[c].status = "running"
          /\ call[c].pc \notin {"prerequisites_agent", "human_selection",
                                "roadmap_agent"}) =>
         CompletedIsPrefix(call[c].values)

\* The current topic of state is the roadmap entry at current_topic_index
\* whenever the stage is learning and the index is inside the roadmap.
CurrentTopicAtCursor(state) ==
  (state.workflow_stage = "learning"
     /\ state.current_topic_index < Len(state.learning_roadmap)) =>
    state.current_topic = state.learning_roadmap[state.current_topic_index + 1]

\* C33: whenever the stage is learning and current_topic_index is inside
\* the roadmap, current_topic is the roadmap entry at that index; and the
\* topic of every topic review suspension is the roadmap entry at the
\* index the session has when it suspends.
C33_CurrentTopicIsRoadmapEntry ==
  /\ \A s \in SessionIds : ckpt[s].saved => CurrentTopicAtCursor(ckpt[s].values)
  /\ \A c \in CallIds :
       call[c].status = "running" => CurrentTopicAtCursor(call[c].values)
  /\ \A s \in SessionIds :
       (ckpt[s].interrupt # <<>>
          /\ ckpt[s].interrupt[1].type = "topic_review") =>
         /\ ckpt[s].values.current_topic_index
              < Len(ckpt[s].values.learning_roadmap)
         /\ ckpt[s].interrupt[1].topic
              = ckpt[s].values.learning_roadmap
                  [ckpt[s].values.current_topic_index + 1]

\* The review of the second of two different roadmap topics is pending.
C33_Witness ==
  \E s \in SessionIds :
    /\ ckpt[s].interrupt # <<>>
    /\ ckpt[s].interrupt[1].type = "topic_review"
    /\ ckpt[s].values.current_topic_index = 1
    /\ Len(ckpt[s].values.learning_roadmap) = 2
    /\ ckpt[s].values.learning_roadmap[1] # ckpt[s].values.learning_roadmap[2]
    /\ ckpt[s].interrupt[1].topic = ckpt[s].values.learning_roadmap[2]

\* The nodes that run before the learning loop.
BeforeLearning == {"prerequisites_agent", "human_selection", "roadmap_agent"}

\* new holds the topic, the prerequisite lists and the roadmap of old.
SamePlan(old, new) ==
  /\ new.initial_topic = old.initial_topic
  /\ new.prerequisites = old.prerequisites
  /\ new.known_prerequisites = old.known_prerequisites
  /\ new.unknown_prerequisites = old.unknown_prerequisites
  /\ new.learning_roadmap = old.learning_roadmap

\* new holds the index and the completed topics of old.
SameProgress(old, new) ==
  /\ new.current_topic_index = old.current_topic_index
  /\ new.completed_topics = old.completed_topics

\* C34: a step of a node that runs after roadmap_agent leaves
\* initial_topic, prerequisites, known_prerequisites,
\* unknown_prerequisites and learning_roadmap as they were, in the state of
\* the call and in the saved state; and unless it is the progress step it
\* also leaves current_topic_index and completed_topics as they were.
C34_LearningFrame ==
  [][\A c \in CallIds :
       (/\ call[c].status = "running"
        /\ call'[c] # call[c]
        /\ call[c].pc \notin BeforeLearning) =>
         /\ SamePlan(call[c].values, call'[c].values)
         /\ SamePlan(call[c].values, ckpt'[call[c].sid].values)
         /\ call[c].pc # "progress_tracker" =>
              /\ SameProgress(call[c].values, call'[c].values)
              /\ SameProgress(call[c].values, ckpt'[call[c].sid].values)]_vars

\* A regenerate answer for the second topic has run the research, critique
\* and generation steps again and the review is pending once more.
C34_Witness ==
  \E c \in CallIds :
    /\ call[c].status = "returned"
    /\ call[c].took = "regenerate"
    /\ call[c].trail
         = <<"topic_review", "research_agent", "critique_agent",
             "generation_agent_main">>
    /\ call[c].values.current_topic_index = 1
    /\ call[c].values.completed_topics # <<>>

\* Call c is at topic_review with a resume value whose action is
\* ask_question and whose question is not empty.
AsksQuestion(c) ==
  /\ call[c].status = "running"
  /\ call[c].pc = "topic_review"
  /\ call[c].resume # <<>>
  /\ call[c].resume[1].isdict
  /\ {"action", "question"} \subseteq call[c].resume[1].keys
  /\ call[c].resume[1].action = "ask_question"
  /\ call[c].resume[1].question # ""

Observed(state) ==
  [workflow_stage |-> state.workflow_stage,
   learning_roadmap |-> state.learning_roadmap,
   current_topic_index |-> state.current_topic_index,
   completed_topics |-> state.completed_topics,
   current_topic |-> state.current_topic,
   topic_complete |-> state.topic_complete,
   awaiting_user_input |-> state.awaiting_user_input]

\* The type of the first interrupt of a tuple of interrupts, "" for none.
TypeOf(interrupts) == IF interrupts = <<>> THEN "" ELSE interrupts[1].type

\* C36: given the same topic, resume values and collaborator outcomes, the
\* graph of workflow.py and the graph of graph.py make the same moves: the
\* session on workflow.py can always follow the move of the session on
\* graph.py, and after it has, the two calls have run the same nodes, are
\* at the same node with the same status, failure and suspension type, and
\* the calls and the saved states agree on stage, roadmap, index, completed
\* topics, current topic, topic_complete and awaiting_user_input.
C36_GraphsEquivalent ==
  /\ ~GraphTurn => ENABLED Follow
  /\ (GraphTurn /\ call[2].peer # <<>>) =>
       /\ call[1].status = call[2].status
       /\ call[1].kind = call[2].kind
       /\ call[1].pc = call[2].pc
       /\ call[1].trail = call[2].trail
       /\ call[1].failed_at = call[2].failed_at
       /\ call[1].cause = call[2].cause
       /\ TypeOf(call[1].interrupt) = TypeOf(call[2].interrupt)
       /\ Observed(call[1].values) = Observed(call[2].values)
       /\ ckpt["A"].saved = ckpt["B"].saved
       /\ ckpt["A"].next = ckpt["B"].next
       /\ TypeOf(ckpt["A"].interrupt) = TypeOf(ckpt["B"].interrupt)
       /\ Observed(ckpt["A"].values) = Observed(ckpt["B"].values)

\* Both sessions have ended after a question was answered along the way.
C36_Witness ==
  /\ GraphTurn
  /\ call[1].pc = END
  /\ call[2].pc = END
  /\ ckpt["A"].values.questions_asked # <<>>
  /\ Len(ckpt["B"].values.completed_topics) = 2

\* C37: on the single-file graph the questions_asked_count that
\* session_summary records equals the number of questions answered in the
\* session, which is the length of the log the session on workflow.py,
\* given the same inputs, has kept.
C37_GraphCountsQuestions ==
  (/\ GraphTurn
   /\ call[2].peer # <<>>
   /\ ckpt["B"].values.session_completion_data # <<>>) =>
     ckpt["B"].values.session_completion_data[1].questions_asked_count
       = Len(ckpt["A"].values.questions_asked)

\* C38: a start request on the stream endpoint for an id without a runner
\* runs the workflow to its first suspension: once the stream has ended the
\* id has a saved state, and an inspect of the id returns a pending
\* interrupt of type prerequisite_selection.
C38_StreamReachesSelection ==
  [][(/\ ~runners["A"]
      /\ runners'["A"]
      /\ call' = call) =>
       /\ ckpt'["A"].saved
       /\ ckpt'["A"].next = "human_selection"
       /\ TypeOf(get_session_state(ckpt'["A"]).interrupt)
            = "prerequisite_selection"]_vars

\* The elements of a roadmap after position cursor (counted from 0).
AfterCursor(roadmap, cursor) ==
  [i \in 1..(Len(roadmap) - cursor - 1) |-> roadmap[cursor + 1 + i]]

\* What C39 requires of the progress computed from a state.
ProgressConsistent(state) ==
  LET progress == calculate_progress(state)
      roadmap == state.values.learning_roadmap
      cursor == state.values.current_topic_index
  IN /\ progress.completed_count <= progress.total_topics
     /\ (state.kind = "dict" /\ cursor < Len(roadmap)) =>
          /\ progress.remaining_topics = AfterCursor(roadmap, cursor)
          /\ progress.completed_count + 1 + Len(progress.remaining_topics)
               = progress.total_topics
     /\ state.kind # "dict" => progress = NoProgress

\* C39: for every state a session reaches, saved or held by a call,
\* calculate_progress reports completed_count <= total_topics and, while
\* the cursor is inside the roadmap, the roadmap elements after the cursor
\* as remaining_topics, so that completed_count + 1 + len(remaining_topics)
\* equals total_topics; for None, an empty or a non-dict state it reports
\* zero totals and empty lists.
C39_ProgressConsistent ==
  /\ \A s \in SessionIds : ProgressConsistent(StateOf(ckpt[s]))
  /\ \A c \in CallIds :
       call[c].status = "returned" =>
         ProgressConsistent(StateArg("dict", call[c].values))
  /\ \A kind \in {"None", "not_dict", "empty"} :
       ProgressConsistent(StateArg(kind, AgentState))

====
